---- MODULE Spec2Model ----
(***************************************************************************)
(* Model of the nectar coupon scraper (scraper/scraper.js, logging         *)
(* variant, and scraper/runner.js), of the multi-website variant of       *)
(* scraper.js and of the on-demand scrape of the extension                 *)
(* (src/background.ts).                                                    *)
(*                                                                         *)
(* ScrapeSpec : one merchant page -> extraction -> page pool and reveal     *)
(*              resolution -> saveToDatabase -> sink.                      *)
(* PoolSpec   : ScrapeSpec on pages whose offers all need a reveal page.   *)
(* SaveSpec   : saveToDatabase called repeatedly on offer lists of one     *)
(*              domain against the upsert sink.                            *)
(* DomainSpec : main on one domain, with every step of scrapeDomains and   *)
(*              of scrapeCoupons and its retries.                          *)
(* Spec       : main(): listing of the letters, batches of domains,        *)
(*              counters and exit code.                                    *)
(* RunnerSpec : runPartialScraper(): the letters listed and processed in   *)
(*              turn, with the time limit.                                 *)
(* ListingSpec: scrapeDomains on one listing page, both variants.          *)
(* ConfigSpec : CONFIG read from the environment and the timeouts of a     *)
(*              reveal resolution.                                         *)
(* MultiSpec  : scrapeCoupons and saveToDatabase of the multi-website      *)
(*              variant: one reveal page per coupon, plain insert.         *)
(* LiveSpec   : main with every value of concurrentDomains CONFIG can     *)
(*              load, under weak fairness of its steps.                    *)
(* ExtensionSpec : fetchCouponsWithBrowserAPI of the extension: one tab,   *)
(*              processCoupons and getCouponCodeFromModal.                 *)
(* CacheSpec  : handleScrapeCoupons of the extension: two scrapeCoupons    *)
(*              messages of one domain, the cache entry and the clock.     *)
(* TestingSpec: handleCouponTestingComplete of the extension on every      *)
(*              list of results.                                           *)
(***************************************************************************)
EXTENDS Integers, Sequences, FiniteSets, TLC

\* ------------------------------------------------------------ bounds
\* Largest number of coupon cards on a merchant page.
MaxCards == 2
\* Largest number of offers handed directly to saveToDatabase in SaveSpec.
MaxOffers == 3
\* Largest number of saveToDatabase calls in SaveSpec.
MaxRuns == 2
\* Largest value of CONFIG.domainRetries.
MaxRetries == 2
\* Largest number of domains a category listing returns.
MaxDomains == 3
\* Largest value of CONFIG.concurrentDomains.
MaxConcurrent == 2
\* Largest number of offers of a page in PoolSpec.
MaxModals == 11
\* Largest number of <a> elements of a listing page.
MaxLinks == 3
\* Largest timeout the environment sets, in seconds.
MaxSeconds == 30
\* Largest number of orchestrator steps kept in events; a run that ends has fewer.
MaxEvents == 32
\* Largest reading of the clock of the extension, in steps of TickMs.
MaxClock == 3
\* Largest number of results in a couponTestingComplete message.
MaxResults == 3

\* ------------------------------------------------------------ values
\* getAttribute() of an attribute that is absent (JavaScript null).
Null == "<null>"
\* The sentinel placeholder code.
AUTOMATIC == "AUTOMATIC"
\* The merchant whose page is scraped in ScrapeSpec and SaveSpec.
TheDomain == "acme.com"

\* JavaScript truthiness of a string-or-null value.
Truthy(s) == s # Null /\ s # ""

\* a || b on string-or-null values.
OrElse(a, b) == IF Truthy(a) THEN a ELSE b

\* The attributes of a card's .show-code control: <<data-code, data-clipboard-text>>.
\* <<Null, Null>> also stands for a card without the control.
ShowCodeAttrs == { Null, "", AUTOMATIC, "A" } \X { Null, "B" }

\* The data-modal attribute of a card.
ModalAttrs == { Null, "", "/m1", "/m2" }

\* A coupon card of the merchant page (document.querySelectorAll result element).
Card == [ show : ShowCodeAttrs, modal : ModalAttrs, isVerified : {"True", "False"} ]

\* What a resolution task reads from input#code of its reveal page;
\* "throw" = the navigation or the wait for the selector failed.
ModalOutcome == { "throw", "", AUTOMATIC, "A", "B" }

\* The outcome of the sink call.
SinkOutcome == { "ok", "error", "throw" }

VARIABLES
    \* ---- ScrapeSpec / SaveSpec
    phase,             \* "page" | "pool" | "batches" | "return" | "retried" |
                       \* "scraped" | "saved" | "empty"
    cards,             \* the coupon cards of the merchant page, document order
    coupons,           \* basicCoupons / completeCoupons (the same objects)
    modalUrls,         \* modalUrlsToProcess
    modalToCouponMap,  \* set of <<modalUrl, couponId>>, one pair per modalUrl
    pending,           \* indexes of modalUrls whose resolution task is in flight
    pagePool,          \* the reveal pages of scrapeCoupons and its batch loop
    sink,              \* the coupons table, a sequence of rows
    saveLog            \* one record per saveToDatabase call made, oldest first

VARIABLES
    \* ---- CONFIG, loaded once at startup
    domainRetries,     \* CONFIG.domainRetries
    concurrentDomains, \* CONFIG.concurrentDomains
    modalTimeout,      \* CONFIG.modalTimeout, in ms
    navigationTimeout, \* CONFIG.navigationTimeout, in ms
    \* ---- the scrapeDomains call in flight
    lister,            \* [pc, launched, closed, ret, outcome]
    \* ---- DomainSpec: one scrapeCoupons call with its retries
    sc,                \* the chain of scrapeCoupons frames of one domain
    cb,                \* main's batch.map callback of that domain
    \* ---- main
    mpc,               \* where main stands
    letterIdx,         \* index of the letter of the running for..of loop
    domainsByLetter,   \* per letter index, the number of domains listed (0: no entry)
    batchStart,        \* i of the batch loop
    task,              \* Spec: per index of the letter's domains, its callback
    results,           \* Spec: what await Promise.all(...) returned for the batch
    totalSuccessCount,
    totalErrorCount,
    exitCode,          \* "running", 0 (normal exit) or 1 (process.exit(1))
    timeUp,            \* runner.js: more than 50 minutes have elapsed since startTime
    sinkErrorLogged,   \* saveToDatabase has logged an error or an exception of the sink
    events             \* the steps of the orchestrator so far, oldest first

VARIABLES
    \* ---- ConfigSpec: the environment and the timeouts of a reveal resolution
    env,               \* process.env: MODAL_TIMEOUT and NAVIGATION_TIMEOUT
    timeouts,          \* [pc, goto, wait]: the timeouts a resolution task uses
    \* ---- ListingSpec: the page.evaluate of scrapeDomains
    links,             \* the <a> elements of the listing page, document order
    listingCalls,      \* the variants whose scrapeDomains has returned
    domainList,        \* what scrapeDomains returns (logging variant)
    processedDomains,  \* the domains scrapeDomains returns (multi-website variant)
    \* ---- MultiSpec: scrapeCoupons of the multi-website variant
    modalPages,        \* [open, opened, ended]: the reveal pages of the modal tasks
    \* ---- ExtensionSpec: fetchCouponsWithBrowserAPI of background.ts
    fetchCall,         \* [pc, outcome]: the fetchCouponsWithBrowserAPI call
    tab,               \* [created, removed, url]: the tabs of the call, the page loaded
    modalTask,         \* per coupon, the callback of processCoupons: [pc, from]
    \* ---- CacheSpec: handleScrapeCoupons of background.ts
    cacheStore,        \* browser.storage.local[cacheKey] of the domain
    clock,             \* Date.now(), in ms since the start
    request,           \* per scrapeCoupons message, its handleScrapeCoupons call
    \* ---- TestingSpec: handleCouponTestingComplete of background.ts
    testing            \* [pc, results, senderTab, sent, notification]

saveVars == << phase, cards, coupons, modalUrls, modalToCouponMap, pending,
               pagePool, sink, saveLog >>

configVars == << domainRetries, concurrentDomains, modalTimeout, navigationTimeout >>

domainVars == << sc, cb >>

mainVars == << mpc, letterIdx, domainsByLetter, batchStart, task, results,
               totalSuccessCount, totalErrorCount, exitCode, timeUp, sinkErrorLogged,
               events >>

\* The state of the listing page and of the other variants of the scraper.
timeoutVars == << env, timeouts >>

listingVars == << links, listingCalls, domainList, processedDomains >>

cacheVars == << cacheStore, clock, request, testing >>

extensionVars == << fetchCall, tab, modalTask, cacheVars >>

variantVars == << timeoutVars, listingVars, modalPages, extensionVars >>

orchVars == << configVars, variantVars, lister, domainVars, mainVars >>

vars == << saveVars, orchVars >>

\* ------------------------------------------------------------ extraction
\* One card -> one basicCoupons entry (the body of couponElements.forEach).
\* The texts of .offer-title and .offer-description are taken to be the
\* card's position, so that the cards of a page carry distinct texts.
ExtractCoupon(card, idCounter) ==
    LET dataCode == OrElse(card.show[1], card.show[2])
        hasDirectCode == Truthy(dataCode)
    IN  [ id |-> idCounter,
          code |-> IF hasDirectCode THEN dataCode ELSE AUTOMATIC,
          discount |-> idCounter,
          terms |-> idCounter,
          verified |-> (card.isVerified = "True"),
          hasDirectCode |-> hasDirectCode,
          modalUrl |-> OrElse(card.modal, Null) ]

\* basicCoupons of a page.
ExtractCoupons(cs) == [ i \in 1..Len(cs) |-> ExtractCoupon(cs[i], i) ]

\* A faulty NeedsModal: the modal URL is pushed whether or not the card
\* holds its code.
NeedsModalAlways(c) == Truthy(c.modalUrl)

\* TRUE iff the card's modal URL is pushed to modalUrls.
NeedsModal(c) == ~c.hasDirectCode /\ Truthy(c.modalUrl)

\* modalUrls of a page: the modal URLs of the coupons without a direct code.
RECURSIVE ExtractModalUrls(_)
ExtractModalUrls(cs) ==
    IF cs = <<>> THEN <<>>
    ELSE LET rest == ExtractModalUrls(SubSeq(cs, 1, Len(cs) - 1))
             c == cs[Len(cs)]
         IN  IF NeedsModal(c) THEN Append(rest, c.modalUrl) ELSE rest

\* couponToModalMap of a page: Map.set(modalUrl, couponId) in document order,
\* so a later card with the same modal URL replaces the earlier entry.
ExtractModalMap(cs) ==
    { << cs[i].modalUrl, cs[i].id >> : i \in
        { j \in 1..Len(cs) :
            /\ NeedsModal(cs[j])
            /\ \A k \in (j + 1)..Len(cs) :
                 ~(NeedsModal(cs[k]) /\ cs[k].modalUrl = cs[j].modalUrl) } }

\* modalToCouponMap.get(url)
MapGet(map, url) == (CHOOSE p \in map : p[1] = url)[2]

\* A faulty FindIndex: the code a task read goes to the first offer.
FindIndexFirst(cs, couponId) == 1

\* basicCoupons.findIndex(coupon => coupon.id === couponId)
FindIndex(cs, couponId) == CHOOSE i \in 1..Len(cs) : cs[i].id = couponId

\* What modalPage.evaluate returns for the value of input#code.
EvaluateModal(value) ==
    IF Truthy(value) /\ value # AUTOMATIC THEN value ELSE AUTOMATIC

\* completeCoupons after one resolution task has read `code`.
UpdateCoupon(cs, couponIndex, code) ==
    IF Truthy(code) /\ code # AUTOMATIC
    THEN [ cs EXCEPT ![couponIndex].code = code ]
    ELSE cs

\* ------------------------------------------------------------ saveToDatabase
\* A faulty CompareVerified: the comparator does not look at verified.
CompareNothing(a, b) == 0

\* The comparator of [...coupons].sort: verified coupons first.
CompareVerified(a, b) ==
    IF a.verified # b.verified THEN (IF b.verified THEN 1 ELSE -1) ELSE 0

\* Stable insertion of x into a sorted sequence: after every element that
\* does not compare greater than x.
RECURSIVE InsertSorted(_, _)
InsertSorted(s, x) ==
    IF s = <<>> THEN << x >>
    ELSE IF CompareVerified(s[Len(s)], x) <= 0
         THEN Append(s, x)
         ELSE Append(InsertSorted(SubSeq(s, 1, Len(s) - 1), x), s[Len(s)])

\* Array.prototype.sort with CompareVerified (a stable sort).
RECURSIVE SortCoupons(_)
SortCoupons(cs) ==
    IF cs = <<>> THEN <<>>
    ELSE InsertSorted(SortCoupons(SubSeq(cs, 1, Len(cs) - 1)), cs[Len(cs)])

\* The key of uniqueMap.
RowKey(row) == << row.domain, row.code >>

\* A faulty SkipCoupon: the sentinel filter is missing.
SkipCouponNever(c) == FALSE

\* TRUE iff saveToDatabase skips the coupon.
SkipCoupon(c) == c.code = AUTOMATIC

\* The row saveToDatabase builds of a coupon.
MakeRow(domain, c) ==
    [ domain |-> domain, code |-> c.code, discount |-> c.discount,
      terms |-> c.terms, verified |-> c.verified ]

\* TRUE iff uniqueMap.has(key) for the rows collected so far.
HasKey(rows, key) == \E i \in 1..Len(rows) : RowKey(rows[i]) = key

\* A faulty CollectUnique: every coupon with a real code becomes a row
\* (uniqueMap.has is not consulted).
RECURSIVE CollectAll(_, _)
CollectAll(domain, sorted) ==
    IF sorted = <<>> THEN <<>>
    ELSE LET rows == CollectAll(domain, SubSeq(sorted, 1, Len(sorted) - 1))
             c == sorted[Len(sorted)]
         IN  IF SkipCoupon(c) THEN rows ELSE Append(rows, MakeRow(domain, c))

\* sortedCoupons.forEach: the values of uniqueMap in insertion order.
RECURSIVE CollectUnique(_, _)
CollectUnique(domain, sorted) ==
    IF sorted = <<>> THEN <<>>
    ELSE LET rows == CollectUnique(domain, SubSeq(sorted, 1, Len(sorted) - 1))
             c == sorted[Len(sorted)]
         IN  IF SkipCoupon(c) THEN rows
             ELSE IF HasKey(rows, << domain, c.code >>) THEN rows
             ELSE Append(rows, MakeRow(domain, c))

\* uniqueCoupons of saveToDatabase(domain, cs).
UniqueCoupons(domain, cs) == CollectUnique(domain, SortCoupons(cs))

\* A faulty Upsert: a plain insert, every row is appended.
InsertAll(table, rows) == table \o rows

\* supabase upsert with onConflict (domain, code) and ignoreDuplicates: true:
\* a row whose key is already in the table is skipped, the others are inserted.
RECURSIVE Upsert(_, _)
Upsert(table, rows) ==
    IF rows = <<>> THEN table
    ELSE LET t == Upsert(table, SubSeq(rows, 1, Len(rows) - 1))
             r == rows[Len(rows)]
         IN  IF HasKey(t, RowKey(r)) THEN t ELSE Append(t, r)

\* ------------------------------------------------------------ reveal pages
\* batchSize = Math.min(modalUrlsToProcess.length)
BatchSize(totalModals) == totalModals

\* totalBatches = Math.ceil(totalModals / batchSize)
TotalBatches(totalModals, batchSize) ==
    IF batchSize = 0 THEN 0 ELSE (totalModals + batchSize - 1) \div batchSize

\* startIndex = batchIndex * batchSize
StartIndex(batchIndex, batchSize) == batchIndex * batchSize

\* endIndex = Math.min(startIndex + batchSize, totalModals)
EndIndex(startIndex, batchSize, totalModals) ==
    IF startIndex + batchSize < totalModals THEN startIndex + batchSize ELSE totalModals

\* A faulty PoolPage: every task of a batch gets the first page of the pool.
PoolPageFirst(i, poolLength) == 0

\* modalPage = pagePool[i % pagePool.length]: the index of the page of the
\* i-th task of a batch.
PoolPage(i, poolLength) == i % poolLength

\* A faulty ModalError: the task has no catch of its own and its rejection
\* gets out of the reveal resolution.
ModalErrorEscapes(value) == IF value = "throw" THEN "error" ELSE "none"

\* What a resolution task that read `value` lets through to the catch block
\* of scrapeCoupons: nothing, the task catches and logs every error.
ModalError(value) == "none"

\* scrapeCoupons has not reached the reveal resolution. pages: pagePool.length;
\* open: reveal pages open; held: the pairs <<task, page>> of the tasks in
\* flight; failed: the tasks that threw or timed out; read: the tasks that
\* read input#code; got: the pairs <<task, code>> of what modalPage.evaluate
\* returned to the tasks that read.
PoolIdle ==
    [ pages |-> 0, open |-> 0, batchSize |-> 0, batchIndex |-> 0, inBatch |-> FALSE,
      held |-> {}, failed |-> {}, read |-> {}, got |-> {} ]

\* ------------------------------------------------------------ orchestrator state
\* The letters of the run (process.env.LETTERS.split(",")).
Letters == << "a", "b" >>

\* CONFIG.delayBetweenDomains (its default), in ms.
DelayBetweenDomains == 1000

\* One step of the orchestrator: e names the step, letter the index of the
\* category, from..to the domains of a batch (to: the length of a listing),
\* ms the length of a delay.
Event(e, letter, from, to, ms) ==
    [ e |-> e, letter |-> letter, from |-> from, to |-> to, ms |-> ms ]

\* The steps so far with one more step (await log(...)); a history that is
\* full keeps what it holds.
Log(evs, e) == IF Len(evs) < MaxEvents THEN Append(evs, e) ELSE evs

\* No scrapeDomains call in flight.
ListerIdle == [ pc |-> "idle", launched |-> 0, closed |-> 0, ret |-> 0, outcome |-> "none" ]

\* No scrapeCoupons call in flight.
ScIdle ==
    [ step |-> "none", retryCount |-> 0, open |-> {}, closing |-> {},
      launches |-> 0, closes |-> 0, attempts |-> 0, failures |-> 0, backoffs |-> 0,
      outcome |-> "none", coupons |-> <<>> ]

\* A batch.map callback that has not started.
CbIdle == [ pc |-> "idle", result |-> "none", saved |-> FALSE ]

\* The callback of a domain that is not in the running batch.
TaskIdle ==
    [ pc |-> "idle", retry |-> 0, outcome |-> "none", result |-> "none",
      scraped |-> FALSE, saved |-> FALSE, save |-> "none" ]

\* An environment variable that is not set; text: the digits of a variable
\* that is set.
Unset == [ set |-> FALSE, text |-> <<>> ]

\* CONFIG is loaded and no resolution task has set its timeouts.
TimeoutsIdle == [ pc |-> "config", goto |-> 0, wait |-> 0 ]

\* The defaults of CONFIG.modalTimeout and CONFIG.navigationTimeout.
DefaultTimeouts == modalTimeout = 15000 /\ navigationTimeout = 30000

\* No modal task of the multi-website variant has started. open: the offers
\* whose reveal page is open; opened: the offers whose reveal page was
\* opened; ended: the offers whose modal task has ended.
ModalPagesIdle == [ open |-> {}, opened |-> {}, ended |-> {} ]

\* No fetchCouponsWithBrowserAPI call has been made.
FetchIdle == [ pc |-> "idle", outcome |-> "none" ]

\* No tab has been created. url: the pieces of the URL of the page the tab
\* shows, split at "#".
TabIdle == [ created |-> 0, removed |-> 0, url |-> << "none" >> ]

\* The callback of a coupon that has not started. from: the URL of the page
\* its code was read from.
ModalTaskIdle == [ pc |-> "idle", from |-> << "none" >> ]

\* The two scrapeCoupons messages for the domain.
Requests == 1..2

\* No entry under the cache key of the domain.
NoEntry == [ present |-> FALSE, coupons |-> <<>>, timestamp |-> 0 ]

\* A scrapeCoupons message that has not arrived. arrived, checked: Date.now()
\* at the arrival and at the check of the cache; fresh: a cache entry not
\* older than CACHE_DURATION_MS existed at the arrival; overlapped: another
\* call was in flight at the arrival; found: the entry the cache held at the
\* check; removed: the call removed that entry; tabs: the
\* fetchCouponsWithBrowserAPI calls made; stored: the entry written; answer:
\* "coupons" or "error"; source: "cache" or "fetch"; coupons: the list
\* answered.
RequestIdle ==
    [ pc |-> "idle", arrived |-> 0, checked |-> 0, fresh |-> FALSE, overlapped |-> FALSE,
      found |-> NoEntry, removed |-> FALSE, tabs |-> 0, stored |-> NoEntry,
      answer |-> "none", source |-> "none", coupons |-> <<>> ]

\* No couponTestingComplete message has arrived. senderTab: sender.tab?.id is
\* defined; sent: the messages sent to that tab.
TestingIdle ==
    [ pc |-> "idle", results |-> <<>>, senderTab |-> FALSE, sent |-> <<>>,
      notification |-> "none" ]

\* The cache is empty and no message has arrived.
CacheIdle ==
    /\ cacheStore = NoEntry
    /\ clock = 0
    /\ request = [ r \in Requests |-> RequestIdle ]
    /\ testing = TestingIdle

\* The extension has made no call.
ExtensionIdle ==
    /\ fetchCall = FetchIdle
    /\ tab = TabIdle
    /\ modalTask = [ i \in 1..MaxCards |-> ModalTaskIdle ]
    /\ CacheIdle

\* No listing page is being evaluated; the environment sets no timeout.
VariantIdle ==
    /\ ExtensionIdle
    /\ modalPages = ModalPagesIdle
    /\ env = [ MODAL_TIMEOUT |-> Unset, NAVIGATION_TIMEOUT |-> Unset ]
    /\ timeouts = TimeoutsIdle
    /\ links = <<>>
    /\ listingCalls = {}
    /\ domainList = <<>>
    /\ processedDomains = <<>>

\* main has not started (ScrapeSpec and SaveSpec leave the orchestrator alone).
OrchIdle ==
    /\ domainRetries = 0
    /\ concurrentDomains = 1
    /\ DefaultTimeouts
    /\ lister = ListerIdle
    /\ sc = ScIdle
    /\ cb = CbIdle
    /\ mpc = "idle"
    /\ letterIdx = 1
    /\ domainsByLetter = [ l \in 1..Len(Letters) |-> 0 ]
    /\ batchStart = 0
    /\ task = [ k \in 1..MaxDomains |-> TaskIdle ]
    /\ results = <<>>
    /\ totalSuccessCount = 0
    /\ totalErrorCount = 0
    /\ exitCode = "running"
    /\ timeUp = FALSE
    /\ sinkErrorLogged = FALSE
    /\ events = <<>>
    /\ VariantIdle

\* ------------------------------------------------------------ ScrapeSpec
\* All sequences over S of length at most n.
SeqUpTo(S, n) == UNION { [1..k -> S] : k \in 0..n }

InitScrape ==
    /\ phase = "page"
    /\ cards \in SeqUpTo(Card, MaxCards)
    /\ coupons = <<>>
    /\ modalUrls = <<>>
    /\ modalToCouponMap = {}
    /\ pending = {}
    /\ pagePool = PoolIdle
    /\ sink = <<>>
    /\ saveLog = <<>>
    /\ OrchIdle

\* page.evaluate of scrapeCoupons: the cards become basicCoupons, modalUrls
\* and the map; without a modal URL the reveal resolution is skipped.
Extract ==
    /\ phase = "page"
    /\ LET cs == ExtractCoupons(cards)
           urls == ExtractModalUrls(cs)
       IN  /\ coupons' = cs
           /\ modalUrls' = urls
           /\ modalToCouponMap' = ExtractModalMap(cs)
           /\ phase' = IF Len(urls) > 0 THEN "pool" ELSE "return"
    /\ UNCHANGED << cards, pending, pagePool, sink, saveLog, orchVars >>

\* The loop that pre-creates the page pool: `made` pages were pushed and
\* `open` pages were opened. With made = batchSize the loop is complete;
\* otherwise context.newPage (open = made) or the set-up of the new page
\* (open = made + 1) threw, which the catch around the reveal resolution
\* logs: no task is started and the pages stay open until the browser closes.
CreatePool(made, open) ==
    /\ phase = "pool"
    /\ LET batchSize == BatchSize(Len(modalUrls))
       IN  /\ made \in 0..batchSize
           /\ open \in {made, made + 1}
           /\ made = batchSize => open = made
           /\ pagePool' = [ pagePool EXCEPT !.pages = made, !.open = open,
                                            !.batchSize = batchSize ]
           /\ phase' = IF made = batchSize THEN "batches" ELSE "return"
    /\ UNCHANGED << cards, coupons, modalUrls, modalToCouponMap, pending, sink, saveLog,
                    orchVars >>

\* One turn of the loop over the batches: the tasks of the batch are created,
\* each with its page of the pool.
ModalBatchStart ==
    /\ phase = "batches"
    /\ ~pagePool.inBatch
    /\ pagePool.batchIndex < TotalBatches(Len(modalUrls), pagePool.batchSize)
    /\ LET startIndex == StartIndex(pagePool.batchIndex, pagePool.batchSize)
           endIndex == EndIndex(startIndex, pagePool.batchSize, Len(modalUrls))
           currentBatchSize == endIndex - startIndex
       IN  /\ pending' = pending \cup { startIndex + i + 1 : i \in 0..(currentBatchSize - 1) }
           /\ pagePool' = [ pagePool EXCEPT
                 !.inBatch = TRUE,
                 !.held = @ \cup { << startIndex + i + 1, PoolPage(i, pagePool.pages) >> :
                                      i \in 0..(currentBatchSize - 1) } ]
    /\ UNCHANGED << phase, cards, coupons, modalUrls, modalToCouponMap, sink, saveLog,
                    orchVars >>

\* One resolution task settles: it navigated its pool page to modalUrls[k]
\* and read `value`, or failed. What it lets through to the catch block of
\* scrapeCoupons starts the retry of the whole domain.
Resolve(k, value) ==
    /\ k \in pending
    /\ LET couponId == MapGet(modalToCouponMap, modalUrls[k])
           couponIndex == FindIndex(coupons, couponId)
       IN  coupons' = IF value = "throw" THEN coupons
                      ELSE UpdateCoupon(coupons, couponIndex, EvaluateModal(value))
    /\ pending' = pending \ {k}
    /\ pagePool' = [ pagePool EXCEPT
          !.held = { h \in @ : h[1] # k },
          !.failed = IF value = "throw" THEN @ \cup {k} ELSE @,
          !.read = IF value = "throw" THEN @ ELSE @ \cup {k},
          !.got = IF value = "throw" THEN @ ELSE @ \cup { << k, EvaluateModal(value) >> } ]
    /\ phase' = IF ModalError(value) = "error" THEN "retried" ELSE phase
    /\ UNCHANGED << cards, modalUrls, modalToCouponMap, sink, saveLog, orchVars >>

\* A faulty ModalBatchJoin: the batch loop goes on without awaiting the
\* tasks of the batch.
ModalBatchJoinUnawaited ==
    /\ phase = "batches"
    /\ pagePool.inBatch
    /\ pagePool' = [ pagePool EXCEPT !.inBatch = FALSE, !.batchIndex = @ + 1 ]
    /\ UNCHANGED << phase, cards, coupons, modalUrls, modalToCouponMap, pending, sink,
                    saveLog, orchVars >>

\* await Promise.allSettled(batchPromises) of the batch returns (followed by
\* the 500 ms pause unless the batch was the last).
ModalBatchJoin ==
    /\ phase = "batches"
    /\ pagePool.inBatch
    /\ pending = {}
    /\ pagePool' = [ pagePool EXCEPT !.inBatch = FALSE, !.batchIndex = @ + 1 ]
    /\ UNCHANGED << phase, cards, coupons, modalUrls, modalToCouponMap, pending, sink,
                    saveLog, orchVars >>

\* After the last batch every page of the pool is closed.
ClosePool ==
    /\ phase = "batches"
    /\ ~pagePool.inBatch
    /\ pagePool.batchIndex >= TotalBatches(Len(modalUrls), pagePool.batchSize)
    /\ pagePool' = [ pagePool EXCEPT !.open = 0 ]
    /\ phase' = "return"
    /\ UNCHANGED << cards, coupons, modalUrls, modalToCouponMap, pending, sink, saveLog,
                    orchVars >>

\* scrapeCoupons returns completeCoupons; its finally block closes the
\* browser and with it every page still open.
ReturnCoupons ==
    /\ phase = "return"
    /\ phase' = IF Len(coupons) > 0 THEN "scraped" ELSE "empty"
    /\ pagePool' = [ pagePool EXCEPT !.open = 0 ]
    /\ UNCHANGED << cards, coupons, modalUrls, modalToCouponMap, pending, sink, saveLog,
                    orchVars >>

\* The table after saveToDatabase has handed uniqueCoupons to the sink.
SinkAfter(table, uniqueCoupons, outcome) ==
    IF Len(uniqueCoupons) > 0 /\ outcome = "ok"
    THEN Upsert(table, uniqueCoupons) ELSE table

\* saveToDatabase(TheDomain, coupons) with the given outcome of the sink call.
\* With no row to save it returns before the sink call.
SaveToDatabase(outcome) ==
    /\ phase \in {"scraped", "saved"}
    /\ Len(saveLog) < MaxRuns
    /\ LET uniqueCoupons == UniqueCoupons(TheDomain, coupons)
           after == SinkAfter(sink, uniqueCoupons, outcome)
       IN  /\ sink' = after
           /\ saveLog' = Append(saveLog,
                 [ coupons |-> coupons, rows |-> uniqueCoupons,
                   outcome |-> IF Len(uniqueCoupons) > 0 THEN outcome ELSE "none",
                   before |-> sink, after |-> after ])
    /\ phase' = "saved"
    /\ UNCHANGED << cards, coupons, modalUrls, modalToCouponMap, pending, pagePool,
                    orchVars >>

\* main's call of saveToDatabase for the coupons scrapeCoupons returned.
SaveScraped(outcome) == phase = "scraped" /\ SaveToDatabase(outcome)

NextScrape ==
    \/ Extract
    \/ \E made \in 0..MaxCards, open \in 0..(MaxCards + 1) : CreatePool(made, open)
    \/ ModalBatchStart
    \/ \E k \in 1..MaxCards, v \in ModalOutcome : Resolve(k, v)
    \/ ModalBatchJoin
    \/ ClosePool
    \/ ReturnCoupons
    \/ \E o \in SinkOutcome : SaveScraped(o)

ScrapeSpec == InitScrape /\ [][NextScrape]_vars

\* ------------------------------------------------------------ PoolSpec
\* The i-th card of a page whose offers all hide their code behind a reveal
\* page of their own.
ModalCard(i) ==
    [ show |-> << Null, Null >>, modal |-> "/m" \o ToString(i), isVerified |-> "False" ]

\* scrapeCoupons on a page of up to MaxModals such cards.
InitPool ==
    /\ phase = "page"
    /\ cards \in { [ i \in 1..n |-> ModalCard(i) ] : n \in 0..MaxModals }
    /\ coupons = <<>>
    /\ modalUrls = <<>>
    /\ modalToCouponMap = {}
    /\ pending = {}
    /\ pagePool = PoolIdle
    /\ sink = <<>>
    /\ saveLog = <<>>
    /\ OrchIdle

NextPool ==
    \/ Extract
    \/ \E made \in 0..MaxModals, open \in 0..(MaxModals + 1) : CreatePool(made, open)
    \/ ModalBatchStart
    \/ \E k \in 1..MaxModals, v \in {"throw", "A"} : Resolve(k, v)
    \/ ModalBatchJoin
    \/ ClosePool
    \/ ReturnCoupons
    \/ SaveScraped("ok")

PoolSpec == InitPool /\ [][NextPool]_vars

\* ------------------------------------------------------------ SaveSpec
\* An offer as scrapeCoupons returns it: a real code or the sentinel.
Offer(i, code, verified) ==
    [ id |-> i, code |-> code, discount |-> i, terms |-> i, verified |-> verified,
      hasDirectCode |-> (code # AUTOMATIC), modalUrl |-> Null ]

\* The offer lists of SaveSpec: ids in extraction order.
OfferLists ==
    UNION { { [ i \in 1..n |-> Offer(i, cv[i][1], cv[i][2]) ] :
                cv \in [1..n -> {AUTOMATIC, "A", "B"} \X BOOLEAN] } : n \in 1..MaxOffers }

InitSave ==
    /\ phase = "scraped"
    /\ cards = <<>>
    /\ coupons \in OfferLists
    /\ modalUrls = <<>>
    /\ modalToCouponMap = {}
    /\ pending = {}
    /\ pagePool = PoolIdle
    /\ sink = <<>>
    /\ saveLog = <<>>
    /\ OrchIdle

\* The pipeline is run again and the site now shows offer i with the other
\* verified flag.
Reobserve(i) ==
    /\ phase = "saved"
    /\ Len(saveLog) < MaxRuns
    /\ i \in 1..Len(coupons)
    /\ coupons' = [ coupons EXCEPT ![i].verified = ~@ ]
    /\ phase' = "scraped"
    /\ UNCHANGED << cards, modalUrls, modalToCouponMap, pending, pagePool, sink, saveLog,
                    orchVars >>

NextSave ==
    \/ \E o \in SinkOutcome : SaveToDatabase(o)
    \/ \E i \in 1..MaxOffers : Reobserve(i)

SaveSpec == InitSave /\ [][NextSave]_vars

\* ------------------------------------------------------------ scrapeDomains
\* main: const domains = await scrapeDomains(letter)
CallScrapeDomains ==
    /\ mpc = "list"
    /\ letterIdx <= Len(Letters)
    /\ lister' = [ ListerIdle EXCEPT !.pc = "launch" ]
    /\ mpc' = "listing"
    /\ UNCHANGED << saveVars, configVars, variantVars, domainVars, letterIdx, domainsByLetter,
                    batchStart, task, results, totalSuccessCount, totalErrorCount, exitCode, timeUp, sinkErrorLogged >>
    /\ events' = Log(events, Event("list", letterIdx, 0, 0, 0))

\* puppeteer.launch of scrapeDomains, which stands before the try block:
\* a failed launch rejects the call.
ListerLaunch(ok) ==
    /\ lister.pc = "launch"
    /\ lister' = IF ok THEN [ lister EXCEPT !.pc = "newPage", !.launched = @ + 1 ]
                 ELSE [ lister EXCEPT !.pc = "settled", !.outcome = "rejected" ]
    /\ UNCHANGED << saveVars, configVars, variantVars, domainVars, mainVars >>

\* browser.newPage and page.goto inside the try block: a failure is caught
\* and the call returns [].
ListerStep(ok) ==
    /\ lister.pc \in {"newPage", "goto"}
    /\ lister' = IF ok
                 THEN [ lister EXCEPT !.pc = IF @ = "newPage" THEN "goto" ELSE "evaluate" ]
                 ELSE [ lister EXCEPT !.pc = "finally", !.ret = 0 ]
    /\ UNCHANGED << saveVars, configVars, variantVars, domainVars, mainVars >>

\* page.evaluate inside the try block: n domains are found, or it throws
\* and the call returns [].
ListerEvaluate(ok, n) ==
    /\ lister.pc = "evaluate"
    /\ lister' = [ lister EXCEPT !.pc = "finally", !.ret = IF ok THEN n ELSE 0 ]
    /\ UNCHANGED << saveVars, configVars, variantVars, domainVars, mainVars >>

\* finally { await browser.close() }, then the call resolves.
ListerClose ==
    /\ lister.pc = "finally"
    /\ lister' = [ lister EXCEPT !.pc = "settled", !.closed = @ + 1,
                                 !.outcome = "resolved" ]
    /\ UNCHANGED << saveVars, configVars, variantVars, domainVars, mainVars >>

\* ------------------------------------------------------------ scrapeCoupons
\* The offer lists a successful attempt returns in DomainSpec and Spec: no
\* card, one offer that kept the sentinel, one offer with a real code.
ScrapedLists == { <<>>, << Offer(1, AUTOMATIC, FALSE) >>, << Offer(1, "A", TRUE) >> }

\* A faulty Finally: the frame returns without closing its browser.
FinallyMissing(closing, r) == closing

\* finally { await browser.close() } of the frame with retryCount r.
Finally(closing, r) == closing \cup {r}

\* The catch block of scrapeCoupons: a retry after the backoff when
\* retryCount < CONFIG.domainRetries, else return [].
CatchError(s) ==
    IF s.retryCount < domainRetries
    THEN [ s EXCEPT !.step = "backoff", !.failures = @ + 1 ]
    ELSE [ s EXCEPT !.step = "none", !.failures = @ + 1, !.outcome = "resolved",
                    !.coupons = <<>>, !.closing = Finally(@, s.retryCount) ]

\* A faulty SaveReturn: saveToDatabase has no try/catch around the sink
\* call, an exception of the sink rejects it.
SaveReturnUncaught(outcome) == IF outcome = "throw" THEN "rejected" ELSE "returned"

\* How saveToDatabase settles for the given outcome of the sink call: an
\* error in the result and an exception are logged, and the call returns.
SaveReturn(outcome) == "returned"

\* TRUE iff saveToDatabase logs an error for the given outcome of the sink call.
SinkErrorLogged(outcome) == outcome \in {"error", "throw"}

\* A faulty ExitCode: the error exit also asks for a counted failure.
ExitCodeIfFailures(successCount, errorCount) ==
    IF successCount = 0 /\ errorCount > 0 THEN 1 ELSE 0

\* The exit code main ends with: process.exit(1) if totalSuccessCount === 0.
ExitCode(successCount, errorCount) == IF successCount = 0 THEN 1 ELSE 0

\* main's callback of the domain starts: await log, then scrapeCoupons(domain).
CbStart ==
    /\ mpc = "batch"
    /\ cb.pc = "idle"
    /\ cb' = [ cb EXCEPT !.pc = "scraping" ]
    /\ sc' = [ ScIdle EXCEPT !.step = "log", !.attempts = 1, !.outcome = "pending" ]
    /\ UNCHANGED << saveVars, configVars, variantVars, lister, mainVars >>

\* await log(`Scraping coupons for ...`) of the current frame.
ScLog ==
    /\ sc.step = "log"
    /\ sc' = [ sc EXCEPT !.step = "launch" ]
    /\ UNCHANGED << saveVars, configVars, variantVars, lister, cb, mainVars >>

\* puppeteer.launch of the current frame, which stands before the try
\* block: a failed launch rejects the frame, and with it the whole chain.
ScLaunch(ok) ==
    /\ sc.step = "launch"
    /\ sc' = IF ok
             THEN [ sc EXCEPT !.step = "context", !.launches = @ + 1,
                              !.open = @ \cup {sc.retryCount} ]
             ELSE [ sc EXCEPT !.step = "none", !.failures = @ + 1,
                              !.outcome = "rejected" ]
    /\ UNCHANGED << saveVars, configVars, variantVars, lister, cb, mainVars >>

\* createBrowserContext / newPage and page.goto inside the try block.
ScStep(ok) ==
    /\ sc.step \in {"context", "goto"}
    /\ sc' = IF ok
             THEN [ sc EXCEPT !.step = IF @ = "context" THEN "goto" ELSE "evaluate" ]
             ELSE CatchError(sc)
    /\ UNCHANGED << saveVars, configVars, variantVars, lister, cb, mainVars >>

\* page.evaluate and the reveal resolution (which catches its own errors):
\* the frame returns completeCoupons, or page.evaluate throws.
ScEvaluate(ok, offers) ==
    /\ sc.step = "evaluate"
    /\ sc' = IF ok
             THEN [ sc EXCEPT !.step = "none", !.outcome = "resolved",
                              !.coupons = offers,
                              !.closing = Finally(@, sc.retryCount) ]
             ELSE CatchError(sc)
    /\ UNCHANGED << saveVars, configVars, variantVars, lister, cb, mainVars >>

\* After the backoff: return scrapeCoupons(domain, retryCount + 1). The next
\* frame starts, then the finally block of this frame closes its browser.
ScRetry ==
    /\ sc.step = "backoff"
    /\ sc' = [ sc EXCEPT !.step = "log", !.retryCount = @ + 1, !.attempts = @ + 1,
                         !.backoffs = @ + 1,
                         !.closing = Finally(@, sc.retryCount) ]
    /\ UNCHANGED << saveVars, configVars, variantVars, lister, cb, mainVars >>

\* await browser.close() of the frame with retryCount r completes.
ScClose(r) ==
    /\ r \in sc.closing
    /\ sc' = [ sc EXCEPT !.closing = @ \ {r}, !.open = @ \ {r}, !.closes = @ + 1 ]
    /\ UNCHANGED << saveVars, configVars, variantVars, lister, cb, mainVars >>

\* TRUE iff the promise of the outermost scrapeCoupons call has settled:
\* the last frame has returned or thrown and every finally block has run.
ScSettled == sc.outcome \in {"resolved", "rejected"} /\ sc.closing = {}

\* The callback after await scrapeCoupons(domain): a rejection is caught,
\* an empty list is a failure, otherwise saveToDatabase is called.
CbAfterScrape ==
    /\ cb.pc = "scraping"
    /\ ScSettled
    /\ cb' = IF sc.outcome = "resolved" /\ Len(sc.coupons) > 0
             THEN [ cb EXCEPT !.pc = "save" ]
             ELSE [ cb EXCEPT !.pc = "done", !.result = "failure" ]
    /\ UNCHANGED << saveVars, configVars, variantVars, lister, sc, mainVars >>

\* await saveToDatabase(domain, coupons): with no row to save it returns
\* before the sink call, else it submits the rows and swallows every sink
\* error; the callback returns { success: true }.
CbSave(outcome) ==
    /\ cb.pc = "save"
    /\ cb' = [ cb EXCEPT !.pc = "done", !.saved = TRUE,
                         !.result = IF SaveReturn(outcome) = "returned"
                                    THEN "success" ELSE "failure" ]
    /\ LET uniqueCoupons == UniqueCoupons(TheDomain, sc.coupons)
           after == SinkAfter(sink, uniqueCoupons, outcome)
       IN  /\ sink' = after
           /\ saveLog' = Append(saveLog,
                 [ coupons |-> sc.coupons, rows |-> uniqueCoupons,
                   outcome |-> IF Len(uniqueCoupons) > 0 THEN outcome ELSE "none",
                   before |-> sink, after |-> after ])
           /\ sinkErrorLogged' =
                 (sinkErrorLogged \/ (Len(uniqueCoupons) > 0 /\ SinkErrorLogged(outcome)))
    /\ UNCHANGED << phase, cards, coupons, modalUrls, modalToCouponMap, pending, pagePool,
                    configVars, variantVars, lister, sc, mpc, letterIdx,
                    domainsByLetter, batchStart, task, results, totalSuccessCount,
                    totalErrorCount, exitCode, timeUp, events >>

\* ------------------------------------------------------------ DomainSpec
\* main on a run of one letter whose listing holds at most one domain, with
\* every step of scrapeDomains and scrapeCoupons.
InitDomain ==
    /\ phase = "page"
    /\ cards = <<>>
    /\ coupons = <<>>
    /\ modalUrls = <<>>
    /\ modalToCouponMap = {}
    /\ pending = {}
    /\ pagePool = PoolIdle
    /\ sink = <<>>
    /\ saveLog = <<>>
    /\ domainRetries \in 0..MaxRetries
    /\ concurrentDomains = 1
    /\ DefaultTimeouts
    /\ lister = ListerIdle
    /\ sc = ScIdle
    /\ cb = CbIdle
    /\ mpc = "list"
    /\ letterIdx = 1
    /\ domainsByLetter = [ l \in 1..Len(Letters) |-> 0 ]
    /\ batchStart = 0
    /\ task = [ k \in 1..MaxDomains |-> TaskIdle ]
    /\ results = <<>>
    /\ totalSuccessCount = 0
    /\ totalErrorCount = 0
    /\ exitCode = "running"
    /\ timeUp = FALSE
    /\ sinkErrorLogged = FALSE
    /\ events = <<>>
    /\ VariantIdle

\* main after await scrapeDomains(letter): a rejection ends main
\* (main().catch: process.exit(1)); an empty list skips the letter.
SingleAfterListing ==
    /\ mpc = "listing"
    /\ lister.pc = "settled"
    /\ IF lister.outcome = "rejected"
       THEN /\ mpc' = "fatal"
            /\ exitCode' = 1
            /\ UNCHANGED domainsByLetter
       ELSE /\ mpc' = IF lister.ret = 0 THEN "summary" ELSE "batch"
            /\ domainsByLetter' = [ domainsByLetter EXCEPT ![letterIdx] = lister.ret ]
            /\ UNCHANGED exitCode
    /\ events' = Log(events,
          IF lister.outcome = "rejected" THEN Event("rejected", letterIdx, 0, 0, 0)
          ELSE Event("listed", letterIdx, 0, lister.ret, 0))
    /\ UNCHANGED << saveVars, configVars, variantVars, lister, domainVars, letterIdx, batchStart,
                    task, results, totalSuccessCount, totalErrorCount, timeUp, sinkErrorLogged >>

\* results.forEach of the batch of one domain.
SingleCount ==
    /\ mpc = "batch"
    /\ cb.pc = "done"
    /\ IF cb.result = "success"
       THEN totalSuccessCount' = totalSuccessCount + 1 /\ UNCHANGED totalErrorCount
       ELSE totalErrorCount' = totalErrorCount + 1 /\ UNCHANGED totalSuccessCount
    /\ mpc' = "summary"
    /\ UNCHANGED << saveVars, configVars, variantVars, lister, domainVars, letterIdx,
                    domainsByLetter, batchStart, task, results, exitCode, timeUp, sinkErrorLogged, events >>

\* The end of main: the summary and the exit code.
Summary ==
    /\ mpc = "summary"
    /\ mpc' = "done"
    /\ exitCode' = ExitCode(totalSuccessCount, totalErrorCount)
    /\ UNCHANGED << saveVars, configVars, variantVars, lister, domainVars, letterIdx,
                    domainsByLetter, batchStart, task, results, totalSuccessCount,
                    totalErrorCount, timeUp, sinkErrorLogged >>
    /\ events' = Log(events, Event("summary", 0, 0, 0, 0))

NextDomain ==
    \/ CallScrapeDomains
    \/ \E ok \in BOOLEAN : ListerLaunch(ok)
    \/ \E ok \in BOOLEAN : ListerStep(ok)
    \/ \E ok \in BOOLEAN, n \in 0..1 : ListerEvaluate(ok, n)
    \/ ListerClose
    \/ SingleAfterListing
    \/ CbStart
    \/ ScLog
    \/ \E ok \in BOOLEAN : ScLaunch(ok)
    \/ \E ok \in BOOLEAN : ScStep(ok)
    \/ \E ok \in BOOLEAN, offers \in ScrapedLists : ScEvaluate(ok, offers)
    \/ ScRetry
    \/ \E r \in 0..MaxRetries : ScClose(r)
    \/ CbAfterScrape
    \/ \E o \in SinkOutcome : CbSave(o)
    \/ SingleCount
    \/ Summary

DomainSpec == InitDomain /\ [][NextDomain]_vars

\* ------------------------------------------------------------ Spec: main
Init ==
    /\ phase = "page"
    /\ cards = <<>>
    /\ coupons = <<>>
    /\ modalUrls = <<>>
    /\ modalToCouponMap = {}
    /\ pending = {}
    /\ pagePool = PoolIdle
    /\ sink = <<>>
    /\ saveLog = <<>>
    /\ domainRetries \in 0..MaxRetries
    /\ concurrentDomains \in 1..MaxConcurrent
    /\ DefaultTimeouts
    /\ lister = ListerIdle
    /\ sc = ScIdle
    /\ cb = CbIdle
    /\ mpc = "list"
    /\ letterIdx = 1
    /\ domainsByLetter = [ l \in 1..Len(Letters) |-> 0 ]
    /\ batchStart = 0
    /\ task = [ k \in 1..MaxDomains |-> TaskIdle ]
    /\ results = <<>>
    /\ totalSuccessCount = 0
    /\ totalErrorCount = 0
    /\ exitCode = "running"
    /\ timeUp = FALSE
    /\ sinkErrorLogged = FALSE
    /\ events = <<>>
    /\ VariantIdle

\* letters.indexOf(letter) < letters.length - 1
NotLastLetter == letterIdx < Len(Letters)

\* First loop of main, after await scrapeDomains(letter): a rejection ends
\* main (main().catch: process.exit(1)); an empty list skips the letter;
\* otherwise the list is stored and a delay follows unless the letter is the last.
AfterListing ==
    /\ mpc = "listing"
    /\ lister.pc = "settled"
    /\ IF lister.outcome = "rejected"
       THEN /\ mpc' = "fatal"
            /\ exitCode' = 1
            /\ UNCHANGED << domainsByLetter, letterIdx >>
       ELSE IF lister.ret = 0
       THEN /\ mpc' = "list"
            /\ letterIdx' = letterIdx + 1
            /\ UNCHANGED << domainsByLetter, exitCode >>
       ELSE /\ domainsByLetter' = [ domainsByLetter EXCEPT ![letterIdx] = lister.ret ]
            /\ mpc' = IF NotLastLetter THEN "listDelay" ELSE "list"
            /\ letterIdx' = IF NotLastLetter THEN letterIdx ELSE letterIdx + 1
            /\ UNCHANGED exitCode
    /\ events' = Log(events,
          IF lister.outcome = "rejected" THEN Event("rejected", letterIdx, 0, 0, 0)
          ELSE Event("listed", letterIdx, 0, lister.ret, 0))
    /\ UNCHANGED << saveVars, configVars, variantVars, lister, domainVars, batchStart, task, results,
                    totalSuccessCount, totalErrorCount, timeUp, sinkErrorLogged >>

\* The delay between letters of the first loop has elapsed.
ListDelay ==
    /\ mpc = "listDelay"
    /\ mpc' = "list"
    /\ letterIdx' = letterIdx + 1
    /\ UNCHANGED << saveVars, configVars, variantVars, lister, domainVars, domainsByLetter, batchStart,
                    task, results, totalSuccessCount, totalErrorCount, exitCode, timeUp, sinkErrorLogged >>
    /\ events' = Log(events, Event("listDelay", letterIdx, 0, 0, DelayBetweenDomains))

\* A faulty EndListing: the first loop is left after its first turn.
EndListingEarly ==
    /\ mpc = "list"
    /\ letterIdx > 1
    /\ mpc' = "process"
    /\ letterIdx' = 1
    /\ UNCHANGED << saveVars, configVars, variantVars, lister, domainVars, domainsByLetter, batchStart,
                    task, results, totalSuccessCount, totalErrorCount, exitCode, timeUp, sinkErrorLogged,
                    events >>

\* The first loop has run through the letters: the second loop starts.
EndListing ==
    /\ mpc = "list"
    /\ letterIdx > Len(Letters)
    /\ mpc' = "process"
    /\ letterIdx' = 1
    /\ UNCHANGED << saveVars, configVars, variantVars, lister, domainVars, domainsByLetter, batchStart,
                    task, results, totalSuccessCount, totalErrorCount, exitCode, timeUp, sinkErrorLogged, events >>

\* Second loop of main, one letter: a letter without domains is skipped,
\* after the last letter the summary follows.
NextLetter ==
    /\ mpc = "process"
    /\ IF letterIdx > Len(Letters)
       THEN mpc' = "summary" /\ UNCHANGED << letterIdx, batchStart >>
       ELSE IF domainsByLetter[letterIdx] = 0
       THEN mpc' = "process" /\ letterIdx' = letterIdx + 1 /\ UNCHANGED batchStart
       ELSE mpc' = "batchLoop" /\ batchStart' = 0 /\ UNCHANGED letterIdx
    /\ UNCHANGED << saveVars, configVars, variantVars, lister, domainVars, domainsByLetter, task,
                    results, totalSuccessCount, totalErrorCount, exitCode, timeUp, sinkErrorLogged, events >>

\* The indexes (from 1) of domains.slice(i, i + CONFIG.concurrentDomains).
Batch(i, n) ==
    { k \in 1..n : i < k /\ k <= i + concurrentDomains }

\* The batch in flight.
CurrentBatch == Batch(batchStart, domainsByLetter[letterIdx])

\* The for loop over the batches of the letter: the next batch is mapped to
\* its callbacks, or the letter is complete and, unless it is the last, the
\* delay between letters follows.
BatchLoop ==
    /\ mpc = "batchLoop"
    /\ IF batchStart < domainsByLetter[letterIdx]
       THEN /\ task' = [ k \in 1..MaxDomains |->
                           IF k \in CurrentBatch
                           THEN [ TaskIdle EXCEPT !.pc = "start" ] ELSE TaskIdle ]
            /\ mpc' = "batch"
            /\ events' = Log(events,
                  Event("batch", letterIdx, batchStart + 1,
                        batchStart + Cardinality(CurrentBatch), 0))
            /\ UNCHANGED letterIdx
       ELSE /\ mpc' = IF NotLastLetter THEN "letterDelay" ELSE "process"
            /\ letterIdx' = IF NotLastLetter THEN letterIdx ELSE letterIdx + 1
            /\ UNCHANGED << task, events >>
    /\ UNCHANGED << saveVars, configVars, variantVars, lister, domainVars, domainsByLetter, batchStart,
                    results, totalSuccessCount, totalErrorCount, exitCode, timeUp, sinkErrorLogged >>

\* A faulty CallbackResult: the callback has no try/catch, a rejection of
\* scrapeCoupons rejects the callback.
CallbackNoCatch(outcome) ==
    IF outcome = "coupons" THEN "success"
    ELSE IF outcome = "rejected" THEN "rejected" ELSE "failure"

\* What the batch.map callback returns: success after saveToDatabase,
\* { success: false } for an empty list and for a caught rejection.
CallbackResult(outcome) ==
    IF outcome = "coupons" THEN "success" ELSE "failure"

\* The callback of domain k starts: await log, then scrapeCoupons(domain).
TaskStart(k) ==
    /\ mpc = "batch"
    /\ task[k].pc = "start"
    /\ task' = [ task EXCEPT ![k].pc = "scraping", ![k].scraped = TRUE ]
    /\ UNCHANGED << saveVars, configVars, variantVars, lister, domainVars, mpc, letterIdx,
                    domainsByLetter, batchStart, results, totalSuccessCount,
                    totalErrorCount, exitCode, timeUp, sinkErrorLogged, events >>

\* An attempt of domain k fails inside the try block of scrapeCoupons: the
\* next attempt follows the backoff, or, after the last retry, scrapeCoupons
\* returns [] and the callback returns { success: false }.
TaskAttemptFails(k) ==
    /\ mpc = "batch"
    /\ task[k].pc = "scraping"
    /\ task' = IF task[k].retry < domainRetries
               THEN [ task EXCEPT ![k].retry = @ + 1 ]
               ELSE [ task EXCEPT ![k].pc = "done", ![k].outcome = "gaveUp",
                                  ![k].result = CallbackResult("gaveUp") ]
    /\ UNCHANGED << saveVars, configVars, variantVars, lister, domainVars, mpc, letterIdx,
                    domainsByLetter, batchStart, results, totalSuccessCount,
                    totalErrorCount, exitCode, timeUp, sinkErrorLogged, events >>

\* puppeteer.launch of an attempt of domain k fails: scrapeCoupons rejects.
TaskLaunchFails(k) ==
    /\ mpc = "batch"
    /\ task[k].pc = "scraping"
    /\ task' = [ task EXCEPT ![k].pc = "done", ![k].outcome = "rejected",
                             ![k].result = CallbackResult("rejected") ]
    /\ UNCHANGED << saveVars, configVars, variantVars, lister, domainVars, mpc, letterIdx,
                    domainsByLetter, batchStart, results, totalSuccessCount,
                    totalErrorCount, exitCode, timeUp, sinkErrorLogged, events >>

\* An attempt of domain k succeeds and scrapeCoupons returns its offers: an
\* empty list ends the callback with { success: false }, else
\* saveToDatabase is called.
TaskScraped(k, offers) ==
    /\ mpc = "batch"
    /\ task[k].pc = "scraping"
    /\ task' = IF Len(offers) > 0
               THEN [ task EXCEPT ![k].pc = "save", ![k].outcome = "coupons" ]
               ELSE [ task EXCEPT ![k].pc = "done", ![k].outcome = "noCards",
                                  ![k].result = CallbackResult("noCards") ]
    /\ UNCHANGED << saveVars, configVars, variantVars, lister, domainVars, mpc, letterIdx,
                    domainsByLetter, batchStart, results, totalSuccessCount,
                    totalErrorCount, exitCode, timeUp, sinkErrorLogged, events >>

\* await saveToDatabase(domain, coupons) of domain k settles; when it has
\* returned the callback returns { success: true }, a rejection would go to
\* the catch block of the callback. The table itself is followed in
\* ScrapeSpec and SaveSpec.
TaskSave(k, outcome) ==
    /\ mpc = "batch"
    /\ task[k].pc = "save"
    /\ task' = [ task EXCEPT ![k].pc = "done", ![k].saved = TRUE,
                             ![k].save = SaveReturn(outcome),
                             ![k].result = IF SaveReturn(outcome) = "returned"
                                           THEN CallbackResult("coupons")
                                           ELSE CallbackResult("rejected") ]
    /\ sinkErrorLogged' = (sinkErrorLogged \/ SinkErrorLogged(outcome))
    /\ UNCHANGED << saveVars, configVars, variantVars, lister, domainVars, mpc, letterIdx,
                    domainsByLetter, batchStart, results, totalSuccessCount,
                    totalErrorCount, exitCode, timeUp, events >>

\* The results of the batch in batch order.
BatchResults ==
    [ j \in 1..Cardinality(CurrentBatch) |->
        [ domain |-> batchStart + j,
          success |-> (task[batchStart + j].result = "success") ] ]

\* A faulty JoinBatch: the join resolves as soon as one callback has returned
\* (Promise.race in the place of Promise.all).
JoinBatchFirst ==
    /\ mpc = "batch"
    /\ \E k \in CurrentBatch : task[k].pc = "done"
    /\ results' = BatchResults
    /\ mpc' = "count"
    /\ events' = Log(events,
          Event("join", letterIdx, batchStart + 1,
                batchStart + Cardinality(CurrentBatch), 0))
    /\ UNCHANGED << saveVars, configVars, variantVars, lister, domainVars, letterIdx, domainsByLetter,
                    batchStart, task, totalSuccessCount, totalErrorCount, exitCode,
                    timeUp, sinkErrorLogged >>

\* await Promise.all(...): resolves with the results once every callback
\* has returned; rejects as soon as one callback has rejected, which ends
\* main (main().catch: process.exit(1)).
JoinBatch ==
    /\ mpc = "batch"
    /\ IF \E k \in CurrentBatch : task[k].result = "rejected"
       THEN /\ mpc' = "fatal"
            /\ exitCode' = 1
            /\ events' = Log(events, Event("rejected", letterIdx, 0, 0, 0))
            /\ UNCHANGED results
       ELSE /\ \A k \in CurrentBatch : task[k].pc = "done"
            /\ results' = BatchResults
            /\ mpc' = "count"
            /\ events' = Log(events,
                  Event("join", letterIdx, batchStart + 1,
                        batchStart + Cardinality(CurrentBatch), 0))
            /\ UNCHANGED exitCode
    /\ UNCHANGED << saveVars, configVars, variantVars, lister, domainVars, letterIdx, domainsByLetter,
                    batchStart, task, totalSuccessCount, totalErrorCount, timeUp, sinkErrorLogged >>

\* A faulty MoreBatches: the delay follows every batch.
MoreBatchesAlways(i, n) == TRUE

\* i + CONFIG.concurrentDomains < domains.length: the batch is not the last
\* of the letter.
MoreBatches(i, n) == i + concurrentDomains < n

\* A faulty CountOf: the forEach callback counts a success only after its
\* await, when the code after forEach has already run.
CountOfAfterAwait(rs, flag) ==
    IF flag THEN 0 ELSE Cardinality({ j \in 1..Len(rs) : rs[j].success = flag })

\* The number of results with the given success flag.
CountOf(rs, flag) == Cardinality({ j \in 1..Len(rs) : rs[j].success = flag })

\* results.forEach, then the delay between batches unless the batch was the
\* last of the letter (i + CONFIG.concurrentDomains < domains.length).
CountResults ==
    /\ mpc = "count"
    /\ totalSuccessCount' = totalSuccessCount + CountOf(results, TRUE)
    /\ totalErrorCount' = totalErrorCount + CountOf(results, FALSE)
    /\ results' = <<>>
    /\ task' = [ k \in 1..MaxDomains |-> TaskIdle ]
    /\ IF MoreBatches(batchStart, domainsByLetter[letterIdx])
       THEN mpc' = "batchDelay" /\ UNCHANGED batchStart
       ELSE mpc' = "batchLoop" /\ batchStart' = batchStart + concurrentDomains
    /\ UNCHANGED << saveVars, configVars, variantVars, lister, domainVars, letterIdx, domainsByLetter,
                    exitCode, timeUp, sinkErrorLogged, events >>

\* The delay between batches has elapsed; i += CONFIG.concurrentDomains.
BatchDelay ==
    /\ mpc = "batchDelay"
    /\ mpc' = "batchLoop"
    /\ batchStart' = batchStart + concurrentDomains
    /\ UNCHANGED << saveVars, configVars, variantVars, lister, domainVars, letterIdx, domainsByLetter,
                    task, results, totalSuccessCount, totalErrorCount, exitCode, timeUp, sinkErrorLogged >>
    /\ events' = Log(events, Event("batchDelay", letterIdx, 0, 0, DelayBetweenDomains))

\* The delay between letters of the second loop has elapsed.
LetterDelay ==
    /\ mpc = "letterDelay"
    /\ mpc' = "process"
    /\ letterIdx' = letterIdx + 1
    /\ UNCHANGED << saveVars, configVars, variantVars, lister, domainVars, domainsByLetter, batchStart,
                    task, results, totalSuccessCount, totalErrorCount, exitCode, timeUp, sinkErrorLogged >>
    /\ events' = Log(events, Event("letterDelay", letterIdx, 0, 0, 2 * DelayBetweenDomains))

Next ==
    \/ CallScrapeDomains
    \/ \E ok \in BOOLEAN : ListerLaunch(ok)
    \/ \E ok \in BOOLEAN : ListerStep(ok)
    \/ \E ok \in BOOLEAN, n \in 0..MaxDomains : ListerEvaluate(ok, n)
    \/ ListerClose
    \/ AfterListing
    \/ ListDelay
    \/ EndListing
    \/ NextLetter
    \/ BatchLoop
    \/ \E k \in 1..MaxDomains : TaskStart(k)
    \/ \E k \in 1..MaxDomains : TaskAttemptFails(k)
    \/ \E k \in 1..MaxDomains : TaskLaunchFails(k)
    \/ \E k \in 1..MaxDomains, offers \in ScrapedLists : TaskScraped(k, offers)
    \/ \E k \in 1..MaxDomains, o \in SinkOutcome : TaskSave(k, o)
    \/ JoinBatch
    \/ CountResults
    \/ BatchDelay
    \/ LetterDelay
    \/ Summary

Spec == Init /\ [][Next]_vars

\* ------------------------------------------------------------ LiveSpec
\* main as in Spec, with CONFIG.concurrentDomains any non-negative integer
\* parseInt(process.env.CONCURRENT_DOMAINS) gives ("0" is a non-empty string,
\* so the default is not taken).
InitLive ==
    /\ phase = "page"
    /\ cards = <<>>
    /\ coupons = <<>>
    /\ modalUrls = <<>>
    /\ modalToCouponMap = {}
    /\ pending = {}
    /\ pagePool = PoolIdle
    /\ sink = <<>>
    /\ saveLog = <<>>
    /\ domainRetries \in 0..MaxRetries
    /\ concurrentDomains \in 0..MaxConcurrent
    /\ DefaultTimeouts
    /\ lister = ListerIdle
    /\ sc = ScIdle
    /\ cb = CbIdle
    /\ mpc = "list"
    /\ letterIdx = 1
    /\ domainsByLetter = [ l \in 1..Len(Letters) |-> 0 ]
    /\ batchStart = 0
    /\ task = [ k \in 1..MaxDomains |-> TaskIdle ]
    /\ results = <<>>
    /\ totalSuccessCount = 0
    /\ totalErrorCount = 0
    /\ exitCode = "running"
    /\ timeUp = FALSE
    /\ sinkErrorLogged = FALSE
    /\ events = <<>>
    /\ VariantIdle

\* Every launch, navigation and wait returns or throws within its timeout
\* and the event loop runs every continuation that is ready: a step of main
\* that can be taken is taken.
LiveSpec == InitLive /\ [][Next]_vars /\ WF_vars(Next)

\* ------------------------------------------------------------ RunnerSpec
\* runPartialScraper of runner.js: every category is listed and processed in
\* turn. runner.js takes scrapeDomains, scrapeCoupons, saveToDatabase, log,
\* logError and CONFIG from the scraper module; they are the ones scraper.js
\* defines. The letters of the run are distinct and there is at least one.
InitRunner == Init

\* Date.now() - startTime passes 50 minutes.
TimePasses ==
    /\ mpc \notin {"done", "fatal"}
    /\ ~timeUp
    /\ timeUp' = TRUE
    /\ UNCHANGED << saveVars, configVars, variantVars, lister, domainVars, mpc, letterIdx,
                    domainsByLetter, batchStart, task, results, totalSuccessCount,
                    totalErrorCount, exitCode, sinkErrorLogged, events >>

\* After await scrapeDomains(letter): a rejection ends the run
\* (runPartialScraper().catch: process.exit(1)); an empty list goes on to
\* the next letter (continue); otherwise the batch loop of the letter starts.
RunnerAfterListing ==
    /\ mpc = "listing"
    /\ lister.pc = "settled"
    /\ IF lister.outcome = "rejected"
       THEN /\ mpc' = "fatal"
            /\ exitCode' = 1
            /\ UNCHANGED << domainsByLetter, letterIdx, batchStart >>
       ELSE IF lister.ret = 0
       THEN /\ mpc' = "list"
            /\ letterIdx' = letterIdx + 1
            /\ UNCHANGED << domainsByLetter, batchStart, exitCode >>
       ELSE /\ domainsByLetter' = [ domainsByLetter EXCEPT ![letterIdx] = lister.ret ]
            /\ batchStart' = 0
            /\ mpc' = "batchLoop"
            /\ UNCHANGED << letterIdx, exitCode >>
    /\ events' = Log(events,
          IF lister.outcome = "rejected" THEN Event("rejected", letterIdx, 0, 0, 0)
          ELSE Event("listed", letterIdx, 0, lister.ret, 0))
    /\ UNCHANGED << saveVars, configVars, variantVars, lister, domainVars, task, results,
                    totalSuccessCount, totalErrorCount, timeUp, sinkErrorLogged >>

\* The for loop over the batches of the letter: the next batch is mapped to
\* its callbacks, or the loop is complete.
RunnerBatchLoop ==
    /\ mpc = "batchLoop"
    /\ IF batchStart < domainsByLetter[letterIdx]
       THEN /\ task' = [ k \in 1..MaxDomains |->
                           IF k \in CurrentBatch
                           THEN [ TaskIdle EXCEPT !.pc = "start" ] ELSE TaskIdle ]
            /\ mpc' = "batch"
            /\ events' = Log(events,
                  Event("batch", letterIdx, batchStart + 1,
                        batchStart + Cardinality(CurrentBatch), 0))
       ELSE /\ mpc' = "letterEnd"
            /\ UNCHANGED << task, events >>
    /\ UNCHANGED << saveVars, configVars, variantVars, lister, domainVars, letterIdx, domainsByLetter,
                    batchStart, results, totalSuccessCount, totalErrorCount, exitCode,
                    timeUp, sinkErrorLogged >>

\* results.forEach (each callback counts before its first await), then the
\* check of the time limit, which leaves the batch loop (break), then the
\* delay between batches unless the batch was the last of the letter.
RunnerCountResults ==
    /\ mpc = "count"
    /\ totalSuccessCount' = totalSuccessCount + CountOf(results, TRUE)
    /\ totalErrorCount' = totalErrorCount + CountOf(results, FALSE)
    /\ results' = <<>>
    /\ task' = [ k \in 1..MaxDomains |-> TaskIdle ]
    /\ IF timeUp
       THEN /\ mpc' = "letterEnd"
            /\ events' = Log(events, Event("timeLimit", letterIdx, 0, 0, 0))
            /\ UNCHANGED batchStart
       ELSE IF MoreBatches(batchStart, domainsByLetter[letterIdx])
       THEN mpc' = "batchDelay" /\ UNCHANGED << batchStart, events >>
       ELSE /\ mpc' = "batchLoop"
            /\ batchStart' = batchStart + concurrentDomains
            /\ UNCHANGED events
    /\ UNCHANGED << saveVars, configVars, variantVars, lister, domainVars, letterIdx, domainsByLetter,
                    exitCode, timeUp, sinkErrorLogged >>

\* After the batch loop of a letter: the delay between letters follows
\* unless the letter is the last.
RunnerLetterEnd ==
    /\ mpc = "letterEnd"
    /\ mpc' = IF NotLastLetter THEN "letterDelay" ELSE "list"
    /\ letterIdx' = IF NotLastLetter THEN letterIdx ELSE letterIdx + 1
    /\ UNCHANGED << saveVars, configVars, variantVars, lister, domainVars, domainsByLetter, batchStart,
                    task, results, totalSuccessCount, totalErrorCount, exitCode, timeUp, sinkErrorLogged,
                    events >>

\* A faulty RunnerLetterDelay: no check of the time limit follows the delay.
RunnerLetterDelayNoCheck ==
    /\ mpc = "letterDelay"
    /\ mpc' = "list"
    /\ letterIdx' = letterIdx + 1
    /\ events' = Log(events,
          Event("letterDelay", letterIdx, 0, 0, 2 * DelayBetweenDomains))
    /\ UNCHANGED << saveVars, configVars, variantVars, lister, domainVars, domainsByLetter, batchStart,
                    task, results, totalSuccessCount, totalErrorCount, exitCode, timeUp, sinkErrorLogged >>

\* The delay between letters has elapsed; the check of the time limit that
\* follows it leaves the loop over the letters (break).
RunnerLetterDelay ==
    /\ mpc = "letterDelay"
    /\ mpc' = IF timeUp THEN "summary" ELSE "list"
    /\ letterIdx' = IF timeUp THEN letterIdx ELSE letterIdx + 1
    /\ events' = Log(events,
          Event("letterDelay", letterIdx, 0, 0, 2 * DelayBetweenDomains))
    /\ UNCHANGED << saveVars, configVars, variantVars, lister, domainVars, domainsByLetter, batchStart,
                    task, results, totalSuccessCount, totalErrorCount, exitCode, timeUp, sinkErrorLogged >>

\* The loop over the letters is complete.
RunnerEndLetters ==
    /\ mpc = "list"
    /\ letterIdx > Len(Letters)
    /\ mpc' = "summary"
    /\ UNCHANGED << saveVars, configVars, variantVars, lister, domainVars, letterIdx, domainsByLetter,
                    batchStart, task, results, totalSuccessCount, totalErrorCount,
                    exitCode, timeUp, sinkErrorLogged, events >>

\* The exit code runPartialScraper ends with: process.exit(1) if
\* totalSuccessCount === 0 && totalErrorCount > 0.
RunnerExitCode(successCount, errorCount) ==
    IF successCount = 0 /\ errorCount > 0 THEN 1 ELSE 0

\* The end of runPartialScraper: the summary and the exit code.
RunnerSummary ==
    /\ mpc = "summary"
    /\ mpc' = "done"
    /\ exitCode' = RunnerExitCode(totalSuccessCount, totalErrorCount)
    /\ events' = Log(events, Event("summary", 0, 0, 0, 0))
    /\ UNCHANGED << saveVars, configVars, variantVars, lister, domainVars, letterIdx, domainsByLetter,
                    batchStart, task, results, totalSuccessCount, totalErrorCount,
                    timeUp, sinkErrorLogged >>

NextRunner ==
    \/ TimePasses
    \/ CallScrapeDomains
    \/ \E ok \in BOOLEAN : ListerLaunch(ok)
    \/ \E ok \in BOOLEAN : ListerStep(ok)
    \/ \E ok \in BOOLEAN, n \in 0..MaxDomains : ListerEvaluate(ok, n)
    \/ ListerClose
    \/ RunnerAfterListing
    \/ RunnerBatchLoop
    \/ \E k \in 1..MaxDomains : TaskStart(k)
    \/ \E k \in 1..MaxDomains : TaskAttemptFails(k)
    \/ \E k \in 1..MaxDomains : TaskLaunchFails(k)
    \/ \E k \in 1..MaxDomains, offers \in ScrapedLists : TaskScraped(k, offers)
    \/ \E k \in 1..MaxDomains, o \in SinkOutcome : TaskSave(k, o)
    \/ JoinBatch
    \/ RunnerCountResults
    \/ BatchDelay
    \/ RunnerLetterEnd
    \/ RunnerLetterDelay
    \/ RunnerEndLetters
    \/ RunnerSummary

RunnerSpec == InitRunner /\ [][NextRunner]_vars

\* ------------------------------------------------------------ ListingSpec
\* The page.evaluate of scrapeDomains on a listing page. An href is the
\* sequence of its pieces, the prefix "/site/" being one piece; Null is an
\* <a> element without the attribute.
SitePrefix == "/site/"

\* The href attributes a listing page may carry.
Hrefs ==
    { Null, <<>>, << SitePrefix >>, << SitePrefix, "acme.com" >>,
      << SitePrefix, "bolt.io" >>, << "bolt.io" >>,
      << SitePrefix, "acme.com", SitePrefix, "x" >> }

\* An <a> element of the listing page: its href and whether it has the
\* class store-link.
Link == [ href : Hrefs, storeLink : BOOLEAN ]

\* The string of an href given by its pieces.
RECURSIVE Join(_)
Join(pieces) == IF pieces = <<>> THEN "" ELSE pieces[1] \o Join(Tail(pieces))

\* href.replace("/site/", ""): the first occurrence of the prefix is removed.
RECURSIVE ReplaceSite(_)
ReplaceSite(href) ==
    IF href = <<>> THEN <<>>
    ELSE IF href[1] = SitePrefix THEN Tail(href)
    ELSE << href[1] >> \o ReplaceSite(Tail(href))

\* The selector 'ul li a[href^="/site/"]' of the logging variant.
MatchesSiteSelector(link) ==
    link.href # Null /\ link.href # <<>> /\ link.href[1] = SitePrefix

\* storeLinks.forEach of the logging variant: the domains pushed to
\* domainList, in document order.
RECURSIVE DomainList(_)
DomainList(ls) ==
    IF ls = <<>> THEN <<>>
    ELSE LET rest == DomainList(SubSeq(ls, 1, Len(ls) - 1))
             link == ls[Len(ls)]
             domain == Join(ReplaceSite(link.href))
         IN  IF MatchesSiteSelector(link) /\ Truthy(Join(link.href)) /\ Truthy(domain)
             THEN Append(rest, domain) ELSE rest

\* url.split("/site/")[1]: the pieces between the first and the second
\* occurrence of the prefix.
RECURSIVE UpToSite(_)
UpToSite(pieces) ==
    IF pieces = <<>> \/ pieces[1] = SitePrefix THEN <<>>
    ELSE << pieces[1] >> \o UpToSite(Tail(pieces))

\* extractDomainFromUrl of the multi-website variant.
ExtractDomainFromUrl(url) ==
    IF url # Null /\ url # <<>> /\ url[1] = SitePrefix
    THEN Join(UpToSite(Tail(url))) ELSE Null

\* The multi-website variant: the hrefs of the a.store-link elements,
\* filter(Boolean), extractDomainFromUrl, filter(Boolean), and the
\* { domain, websiteKey } objects returned.
RECURSIVE ProcessedDomains(_)
ProcessedDomains(ls) ==
    IF ls = <<>> THEN <<>>
    ELSE LET rest == ProcessedDomains(SubSeq(ls, 1, Len(ls) - 1))
             link == ls[Len(ls)]
             url == IF link.href # Null /\ Truthy(Join(link.href)) THEN link.href ELSE Null
             domain == ExtractDomainFromUrl(url)
         IN  IF link.storeLink /\ url # Null /\ Truthy(domain)
             THEN Append(rest, [ domain |-> domain, websiteKey |-> "couponfollow" ])
             ELSE rest

InitListing ==
    /\ phase = "page"
    /\ cards = <<>>
    /\ coupons = <<>>
    /\ modalUrls = <<>>
    /\ modalToCouponMap = {}
    /\ pending = {}
    /\ pagePool = PoolIdle
    /\ sink = <<>>
    /\ saveLog = <<>>
    /\ domainRetries = 0
    /\ concurrentDomains = 1
    /\ DefaultTimeouts
    /\ lister = ListerIdle
    /\ sc = ScIdle
    /\ cb = CbIdle
    /\ mpc = "idle"
    /\ letterIdx = 1
    /\ domainsByLetter = [ l \in 1..Len(Letters) |-> 0 ]
    /\ batchStart = 0
    /\ task = [ k \in 1..MaxDomains |-> TaskIdle ]
    /\ results = <<>>
    /\ totalSuccessCount = 0
    /\ totalErrorCount = 0
    /\ exitCode = "running"
    /\ timeUp = FALSE
    /\ sinkErrorLogged = FALSE
    /\ events = <<>>
    /\ env = [ MODAL_TIMEOUT |-> Unset, NAVIGATION_TIMEOUT |-> Unset ]
    /\ timeouts = TimeoutsIdle
    /\ links \in SeqUpTo(Link, MaxLinks)
    /\ listingCalls = {}
    /\ domainList = <<>>
    /\ processedDomains = <<>>
    /\ modalPages = ModalPagesIdle
    /\ ExtensionIdle

\* scrapeDomains of the logging variant evaluates the page and returns domains.
ScrapeDomains ==
    /\ "logging" \notin listingCalls
    /\ listingCalls' = listingCalls \cup {"logging"}
    /\ domainList' = DomainList(links)
    /\ UNCHANGED << saveVars, configVars, lister, domainVars, mainVars, extensionVars, timeoutVars,
                    links, processedDomains, modalPages >>

\* scrapeDomains of the multi-website variant evaluates the page and returns
\* its list.
ScrapeDomainsMulti ==
    /\ "multi" \notin listingCalls
    /\ listingCalls' = listingCalls \cup {"multi"}
    /\ processedDomains' = ProcessedDomains(links)
    /\ UNCHANGED << saveVars, configVars, lister, domainVars, mainVars, extensionVars, timeoutVars,
                    links, domainList, modalPages >>

NextListing ==
    \/ ScrapeDomains
    \/ ScrapeDomainsMulti

ListingSpec == InitListing /\ [][NextListing]_vars

\* ------------------------------------------------------------ ConfigSpec
\* The decimal numeral of a natural number, as the sequence of its digits.
RECURSIVE Numeral(_)
Numeral(n) == IF n < 10 THEN << n >> ELSE Append(Numeral(n \div 10), n % 10)

\* What the environment may hold for a timeout: nothing, the empty string,
\* or the numeral of a number of milliseconds.
EnvValues ==
    { Unset, [ set |-> TRUE, text |-> <<>> ] }
        \cup { [ set |-> TRUE, text |-> Numeral(1000 * k) ] : k \in 0..MaxSeconds }

\* parseInt of a numeral.
RECURSIVE ParseInt(_)
ParseInt(digits) ==
    IF digits = <<>> THEN 0
    ELSE 10 * ParseInt(SubSeq(digits, 1, Len(digits) - 1)) + digits[Len(digits)]

\* process.env.X ? parseInt(process.env.X) : default
FromEnv(value, default) ==
    IF ~value.set \/ value.text = <<>> THEN default ELSE ParseInt(value.text)

\* Math.min(a, b)
MathMin(a, b) == IF a < b THEN a ELSE b

\* The module is about to be loaded in some environment.
InitConfig ==
    /\ phase = "page"
    /\ cards = <<>>
    /\ coupons = <<>>
    /\ modalUrls = <<>>
    /\ modalToCouponMap = {}
    /\ pending = {}
    /\ pagePool = PoolIdle
    /\ sink = <<>>
    /\ saveLog = <<>>
    /\ domainRetries = 0
    /\ concurrentDomains = 1
    /\ DefaultTimeouts
    /\ lister = ListerIdle
    /\ sc = ScIdle
    /\ cb = CbIdle
    /\ mpc = "idle"
    /\ letterIdx = 1
    /\ domainsByLetter = [ l \in 1..Len(Letters) |-> 0 ]
    /\ batchStart = 0
    /\ task = [ k \in 1..MaxDomains |-> TaskIdle ]
    /\ results = <<>>
    /\ totalSuccessCount = 0
    /\ totalErrorCount = 0
    /\ exitCode = "running"
    /\ timeUp = FALSE
    /\ sinkErrorLogged = FALSE
    /\ events = <<>>
    /\ env \in [ MODAL_TIMEOUT : EnvValues, NAVIGATION_TIMEOUT : EnvValues ]
    /\ timeouts = [ TimeoutsIdle EXCEPT !.pc = "env" ]
    /\ links = <<>>
    /\ listingCalls = {}
    /\ domainList = <<>>
    /\ processedDomains = <<>>
    /\ modalPages = ModalPagesIdle
    /\ ExtensionIdle

\* const CONFIG = { ... }: the timeouts are read from the environment.
LoadConfig ==
    /\ timeouts.pc = "env"
    /\ modalTimeout' = FromEnv(env.MODAL_TIMEOUT, 15000)
    /\ navigationTimeout' = FromEnv(env.NAVIGATION_TIMEOUT, 30000)
    /\ timeouts' = [ timeouts EXCEPT !.pc = "config" ]
    /\ UNCHANGED << saveVars, domainRetries, concurrentDomains, lister, domainVars,
                    mainVars, extensionVars, env, listingVars, modalPages >>

\* A resolution task sets the timeout of modalPage.goto (shorterTimeout)
\* and the timeout of modalPage.waitForFunction.
RevealTimeouts ==
    /\ timeouts.pc = "config"
    /\ timeouts' = [ pc |-> "reveal", goto |-> MathMin(modalTimeout, 8000), wait |-> 8000 ]
    /\ UNCHANGED << saveVars, configVars, lister, domainVars, mainVars, extensionVars, env,
                    listingVars, modalPages >>

NextConfig ==
    \/ LoadConfig
    \/ RevealTimeouts

ConfigSpec == InitConfig /\ [][NextConfig]_vars

\* ------------------------------------------------------------ MultiSpec
\* scrapeCoupons and saveToDatabase of the multi-website variant on one
\* merchant page. The variant reads no code from the card itself.
MultiCard == [ show : { << Null, Null >> }, modal : ModalAttrs, isVerified : {"True", "False"} ]

\* One card -> one basicCoupons entry of the variant (code: null).
MultiCoupon(card, idCounter) ==
    [ id |-> idCounter, discount |-> idCounter, terms |-> idCounter,
      verified |-> (card.isVerified = "True"), code |-> Null ]

\* What the two modalPage.evaluate calls of a modal task yield for the
\* value of the code input: the value, or null.
MultiEvaluateCode(value) ==
    IF Truthy(value) /\ value # AUTOMATIC THEN value ELSE Null

\* validCoupons = basicCoupons.filter(coupon.code && coupon.code !== "AUTOMATIC")
RECURSIVE ValidCoupons(_)
ValidCoupons(cs) ==
    IF cs = <<>> THEN <<>>
    ELSE LET rest == ValidCoupons(SubSeq(cs, 1, Len(cs) - 1))
             c == cs[Len(cs)]
         IN  IF Truthy(c.code) /\ c.code # AUTOMATIC THEN Append(rest, c) ELSE rest

\* couponsToSave = coupons.map(...)
CouponsToSave(domain, cs) == [ i \in 1..Len(cs) |-> MakeRow(domain, cs[i]) ]

\* supabase.from("coupons").insert(rows): every row is appended.
Insert(table, rows) == table \o rows

InitMulti ==
    /\ phase = "page"
    /\ cards \in SeqUpTo(MultiCard, MaxCards)
    /\ coupons = <<>>
    /\ modalUrls = <<>>
    /\ modalToCouponMap = {}
    /\ pending = {}
    /\ pagePool = PoolIdle
    /\ sink = <<>>
    /\ saveLog = <<>>
    /\ OrchIdle

\* page.evaluate of the variant, then basicCoupons.map(async ...): the task
\* of a coupon without a modal URL sets the sentinel and ends, the others
\* go on to context.newPage().
MultiEvaluate ==
    /\ phase = "page"
    /\ LET urls == [ i \in 1..Len(cards) |-> OrElse(cards[i].modal, Null) ]
           skipped == { i \in 1..Len(cards) : ~Truthy(urls[i]) }
       IN  /\ modalUrls' = urls
           /\ coupons' = [ i \in 1..Len(cards) |->
                             IF i \in skipped
                             THEN [ MultiCoupon(cards[i], i) EXCEPT !.code = AUTOMATIC ]
                             ELSE MultiCoupon(cards[i], i) ]
           /\ pending' = (1..Len(cards)) \ skipped
           /\ modalPages' = [ ModalPagesIdle EXCEPT !.ended = skipped ]
    /\ phase' = "modals"
    /\ UNCHANGED << cards, modalToCouponMap, pagePool, sink, saveLog, configVars,
                    timeoutVars, listingVars, lister, domainVars, mainVars, extensionVars >>

\* const modalPage = await context.newPage() of the task of coupon i; when
\* it throws, the catch block of the task sets the sentinel.
MultiNewPage(i, ok) ==
    /\ phase = "modals"
    /\ i \in pending
    /\ i \notin modalPages.opened
    /\ IF ok
       THEN /\ modalPages' = [ modalPages EXCEPT !.open = @ \cup {i}, !.opened = @ \cup {i} ]
            /\ UNCHANGED << coupons, pending >>
       ELSE /\ modalPages' = [ modalPages EXCEPT !.ended = @ \cup {i} ]
            /\ coupons' = [ coupons EXCEPT ![i].code = AUTOMATIC ]
            /\ pending' = pending \ {i}
    /\ UNCHANGED << phase, cards, modalUrls, modalToCouponMap, pagePool, sink, saveLog,
                    configVars, timeoutVars, listingVars, lister, domainVars, mainVars, extensionVars >>

\* The rest of the task of coupon i: the set-up of the page, goto and the
\* evaluations read `value` and the page is closed; or one of them throws
\* ("throw") and the catch block sets the sentinel.
MultiModal(i, value) ==
    /\ phase = "modals"
    /\ i \in pending
    /\ i \in modalPages.open
    /\ IF value = "throw"
       THEN /\ coupons' = [ coupons EXCEPT ![i].code = AUTOMATIC ]
            /\ modalPages' = [ modalPages EXCEPT !.ended = @ \cup {i} ]
       ELSE /\ coupons' = [ coupons EXCEPT
                   ![i].code = OrElse(MultiEvaluateCode(value), AUTOMATIC) ]
            /\ modalPages' = [ modalPages EXCEPT !.open = @ \ {i}, !.ended = @ \cup {i} ]
    /\ pending' = pending \ {i}
    /\ UNCHANGED << phase, cards, modalUrls, modalToCouponMap, pagePool, sink, saveLog,
                    configVars, timeoutVars, listingVars, lister, domainVars, mainVars, extensionVars >>

\* await Promise.all(modalPromises), return validCoupons; the finally block
\* closes the browser and with it every page still open.
MultiReturn ==
    /\ phase = "modals"
    /\ pending = {}
    /\ coupons' = ValidCoupons(coupons)
    /\ modalPages' = [ modalPages EXCEPT !.open = {} ]
    /\ phase' = IF Len(ValidCoupons(coupons)) > 0 THEN "scraped" ELSE "empty"
    /\ UNCHANGED << cards, modalUrls, modalToCouponMap, pending, pagePool, sink, saveLog,
                    configVars, timeoutVars, listingVars, lister, domainVars, mainVars, extensionVars >>

\* saveToDatabase(TheDomain, coupons) of the variant with the given outcome
\* of the sink call; a second call stands for a second run of the scrape
\* that found the same offers.
MultiSave(outcome) ==
    /\ phase \in {"scraped", "saved"}
    /\ Len(saveLog) < MaxRuns
    /\ Len(coupons) > 0
    /\ LET couponsToSave == CouponsToSave(TheDomain, coupons)
           after == IF outcome = "ok" THEN Insert(sink, couponsToSave) ELSE sink
       IN  /\ sink' = after
           /\ saveLog' = Append(saveLog,
                 [ coupons |-> coupons, rows |-> couponsToSave, outcome |-> outcome,
                   before |-> sink, after |-> after ])
    /\ phase' = "saved"
    /\ UNCHANGED << cards, coupons, modalUrls, modalToCouponMap, pending, pagePool,
                    orchVars >>

NextMulti ==
    \/ MultiEvaluate
    \/ \E i \in 1..MaxCards, ok \in BOOLEAN : MultiNewPage(i, ok)
    \/ \E i \in 1..MaxCards, v \in ModalOutcome : MultiModal(i, v)
    \/ MultiReturn
    \/ \E o \in SinkOutcome : MultiSave(o)

MultiSpec == InitMulti /\ [][NextMulti]_vars

\* ------------------------------------------------------------ ExtensionSpec
\* fetchCouponsWithBrowserAPI of background.ts on one merchant page. A URL
\* is the sequence of its pieces, split at "#".
MerchantUrl == << "/site/acme.com" >>

\* The page getCouponCodeFromModal loads when a modal page showed no code.
AlternativeUrl == << "/site/amazon.co.uk" >>

\* The data-modal attribute of a card of the extension: absent, empty,
\* without a fragment, or with the coupon id as its fragment.
ExtModalAttrs ==
    { << Null >>, << "" >>, << "/m" >>, << "/m", "1" >>, << "/m", "2" >>, << "/m", "3" >> }

\* A card with data-type "coupon": the text of its .coupon-code element
\* (Null: no such element) and its data-modal attribute.
ExtCard == [ codeEl : { Null, "", "C" }, modal : ExtModalAttrs ]

\* The entries extractionScript pushes for one card.
ExtCoupon(card, idCounter) ==
    [ id |-> idCounter,
      code |-> IF card.codeEl # Null THEN OrElse(card.codeEl, AUTOMATIC) ELSE AUTOMATIC,
      discount |-> idCounter, terms |-> idCounter, verified |-> FALSE ]

\* The modalUrls entry of one card (null when the card holds its code).
ExtModalUrl(card) == IF card.codeEl # Null THEN << Null >> ELSE card.modal

\* couponId = modalUrl.split("#")[1]
CouponId(url) == IF Len(url) >= 2 THEN url[2] ELSE Null

\* What extractCouponCodeFromPage reads from the page the tab shows: every
\* modal page shows the code of its own coupon, the modal page of coupon 3
\* an empty input, the other pages no input.
CodeShown(url) ==
    IF url = << "/m", "1" >> THEN "A"
    ELSE IF url = << "/m", "2" >> THEN "B"
    ELSE IF url = << "/m", "3" >> THEN ""
    ELSE Null

\* The coupons whose callback calls getCouponCodeFromModal: if (modalUrls[i]).
WithModal(urls) == { i \in 1..Len(urls) : urls[i] \notin { << Null >>, << "" >> } }

\* The greatest element of a non-empty set of numbers.
Greatest(S) == CHOOSE x \in S : \A y \in S : y <= x

InitExtension ==
    /\ phase = "page"
    /\ cards \in SeqUpTo(ExtCard, MaxCards)
    /\ coupons = <<>>
    /\ modalUrls = <<>>
    /\ modalToCouponMap = {}
    /\ pending = {}
    /\ pagePool = PoolIdle
    /\ sink = <<>>
    /\ saveLog = <<>>
    /\ domainRetries = 0
    /\ concurrentDomains = 1
    /\ DefaultTimeouts
    /\ lister = ListerIdle
    /\ sc = ScIdle
    /\ cb = CbIdle
    /\ mpc = "idle"
    /\ letterIdx = 1
    /\ domainsByLetter = [ l \in 1..Len(Letters) |-> 0 ]
    /\ batchStart = 0
    /\ task = [ k \in 1..MaxDomains |-> TaskIdle ]
    /\ results = <<>>
    /\ totalSuccessCount = 0
    /\ totalErrorCount = 0
    /\ exitCode = "running"
    /\ timeUp = FALSE
    /\ sinkErrorLogged = FALSE
    /\ events = <<>>
    /\ env = [ MODAL_TIMEOUT |-> Unset, NAVIGATION_TIMEOUT |-> Unset ]
    /\ timeouts = TimeoutsIdle
    /\ links = <<>>
    /\ listingCalls = {}
    /\ domainList = <<>>
    /\ processedDomains = <<>>
    /\ modalPages = ModalPagesIdle
    /\ fetchCall = [ FetchIdle EXCEPT !.pc = "permission" ]
    /\ tab = TabIdle
    /\ modalTask = [ i \in 1..MaxCards |-> ModalTaskIdle ]
    /\ CacheIdle

\* The call rejects: the catch block logs the error and throws it again.
FetchRejected == [ pc |-> "settled", outcome |-> "rejected" ]

\* ensureCouponSitePermission: without the permission the call throws.
FetchPermission(ok) ==
    /\ fetchCall.pc = "permission"
    /\ fetchCall' = IF ok THEN [ fetchCall EXCEPT !.pc = "createTab" ] ELSE FetchRejected
    /\ UNCHANGED << saveVars, configVars, timeoutVars, listingVars, modalPages, lister,
                    domainVars, mainVars, cacheVars, tab, modalTask >>

\* const tab = await createTabAsync(couponUrl)
FetchCreateTab(ok) ==
    /\ fetchCall.pc = "createTab"
    /\ IF ok
       THEN /\ fetchCall' = [ fetchCall EXCEPT !.pc = "extract" ]
            /\ tab' = [ tab EXCEPT !.created = @ + 1, !.url = MerchantUrl ]
       ELSE /\ fetchCall' = FetchRejected
            /\ UNCHANGED tab
    /\ UNCHANGED << saveVars, configVars, timeoutVars, listingVars, modalPages, lister,
                    domainVars, mainVars, cacheVars, modalTask >>

\* extractBasicCouponDataFromTab, then processCoupons: basicCoupons.map runs
\* every callback up to its first await, in the order of the coupons. A
\* callback without a modal URL returns its coupon; one whose modal URL has
\* no coupon id gets "AUTOMATIC"; the others call browser.tabs.update on the
\* tab of the call, one after the other. When the script fails the call
\* rejects.
FetchExtract(ok) ==
    /\ fetchCall.pc = "extract"
    /\ IF ok
       THEN LET urls == [ i \in 1..Len(cards) |-> ExtModalUrl(cards[i]) ]
                navigating == { i \in WithModal(urls) : Truthy(CouponId(urls[i])) }
            IN  /\ modalUrls' = urls
                /\ coupons' = [ i \in 1..Len(cards) |->
                                  IF i \in WithModal(urls) \ navigating
                                  THEN [ ExtCoupon(cards[i], i) EXCEPT !.code = AUTOMATIC ]
                                  ELSE ExtCoupon(cards[i], i) ]
                /\ modalTask' = [ i \in 1..MaxCards |->
                                    IF i \in navigating
                                    THEN [ ModalTaskIdle EXCEPT !.pc = "navigated" ]
                                    ELSE IF i \in 1..Len(cards)
                                    THEN [ ModalTaskIdle EXCEPT !.pc = "done" ]
                                    ELSE ModalTaskIdle ]
                /\ tab' = IF navigating = {} THEN tab
                          ELSE [ tab EXCEPT !.url = urls[Greatest(navigating)] ]
                /\ fetchCall' = [ fetchCall EXCEPT !.pc = "process" ]
       ELSE /\ fetchCall' = FetchRejected
            /\ UNCHANGED << coupons, modalUrls, modalTask, tab >>
    /\ UNCHANGED << phase, cards, modalToCouponMap, pending, pagePool, sink, saveLog,
                    configVars, timeoutVars, listingVars, modalPages, lister, domainVars,
                    mainVars, cacheVars >>

\* getCouponCodeFromModal of coupon i after its navigation and reload:
\* extractCouponCodeFromPage reads the page the tab shows. A code is
\* returned to the callback; without one the tab is sent to the
\* alternative page.
ModalExtractCode(i) ==
    /\ fetchCall.pc = "process"
    /\ modalTask[i].pc = "navigated"
    /\ LET code == CodeShown(tab.url)
       IN  IF Truthy(code)
           THEN /\ coupons' = [ coupons EXCEPT ![i].code = code ]
                /\ modalTask' = [ modalTask EXCEPT ![i] = [ pc |-> "done", from |-> tab.url ] ]
                /\ UNCHANGED tab
           ELSE /\ modalTask' = [ modalTask EXCEPT ![i].pc = "alternative" ]
                /\ tab' = [ tab EXCEPT !.url = AlternativeUrl ]
                /\ UNCHANGED coupons
    /\ UNCHANGED << phase, cards, modalUrls, modalToCouponMap, pending, pagePool, sink,
                    saveLog, configVars, timeoutVars, listingVars, modalPages, lister,
                    domainVars, mainVars, cacheVars, fetchCall >>

\* extractCouponDataFromPage of coupon i on the alternative page: the
\* script finds no code there and the callback gets "AUTOMATIC".
ModalExtractData(i) ==
    /\ fetchCall.pc = "process"
    /\ modalTask[i].pc = "alternative"
    /\ coupons' = [ coupons EXCEPT ![i].code = AUTOMATIC ]
    /\ modalTask' = [ modalTask EXCEPT ![i].pc = "done" ]
    /\ UNCHANGED << phase, cards, modalUrls, modalToCouponMap, pending, pagePool, sink,
                    saveLog, configVars, timeoutVars, listingVars, modalPages, lister,
                    domainVars, mainVars, cacheVars, fetchCall, tab >>

\* A step of getCouponCodeFromModal of coupon i throws: the callback logs
\* the error and returns its coupon as it was.
ModalThrows(i) ==
    /\ fetchCall.pc = "process"
    /\ modalTask[i].pc \in {"navigated", "alternative"}
    /\ modalTask' = [ modalTask EXCEPT ![i].pc = "done" ]
    /\ UNCHANGED << saveVars, configVars, timeoutVars, listingVars, modalPages, lister,
                    domainVars, mainVars, cacheVars, fetchCall, tab >>

\* Promise.all(couponPromises) resolves, then await closeTabAsync(tab.id)
\* and return completeCoupons.
FetchCloseTab ==
    /\ fetchCall.pc = "process"
    /\ \A i \in 1..MaxCards : modalTask[i].pc \in {"idle", "done"}
    /\ tab' = [ tab EXCEPT !.removed = @ + 1 ]
    /\ fetchCall' = [ pc |-> "settled", outcome |-> "resolved" ]
    /\ UNCHANGED << saveVars, configVars, timeoutVars, listingVars, modalPages, lister,
                    domainVars, mainVars, cacheVars, modalTask >>

NextExtension ==
    \/ \E ok \in BOOLEAN : FetchPermission(ok)
    \/ \E ok \in BOOLEAN : FetchCreateTab(ok)
    \/ \E ok \in BOOLEAN : FetchExtract(ok)
    \/ \E i \in 1..MaxCards : ModalExtractCode(i)
    \/ \E i \in 1..MaxCards : ModalExtractData(i)
    \/ \E i \in 1..MaxCards : ModalThrows(i)
    \/ FetchCloseTab

ExtensionSpec == InitExtension /\ [][NextExtension]_vars

\* ------------------------------------------------------------ CacheSpec
\* handleScrapeCoupons of background.ts for one domain: two scrapeCoupons
\* messages, the cache entry of the domain in browser.storage.local and the
\* clock. The fetch is taken at its outcome (permission, tab, extraction);
\* ExtensionSpec models its inside.

\* const CACHE_DURATION_MS = 24 * 60 * 60 * 1000
CACHE_DURATION_MS == 86400000

\* The clock advances in steps of half the cache duration, so that an entry
\* is seen at the ages 0, D/2, D (still fresh) and 3D/2 (expired).
TickMs == CACHE_DURATION_MS \div 2

\* The coupon lists a fetch can return.
FetchedLists == { << "A" >>, << "B" >> }

\* cacheCoupons: { coupons, timestamp: Date.now() }.
CachedEntry(list, now) == [ present |-> TRUE, coupons |-> list, timestamp |-> now ]

\* Faulty getCachedCoupons: no entry ever expires.
CacheExpiredNever(entry, now) == FALSE

\* getCachedCoupons: cacheAge > CACHE_DURATION_MS.
CacheExpired(entry, now) == now - entry.timestamp > CACHE_DURATION_MS

\* A cache entry exists and has not expired.
Fresh(entry, now) == entry.present /\ ~CacheExpired(entry, now)

\* The handleScrapeCoupons call of message r has started and not returned.
CallInFlight(r) == request[r].pc \notin { "idle", "done" }

\* The scraper and the fetch of the extension are idle.
ScraperIdle ==
    /\ phase = "page"
    /\ cards = <<>>
    /\ coupons = <<>>
    /\ modalUrls = <<>>
    /\ modalToCouponMap = {}
    /\ pending = {}
    /\ pagePool = PoolIdle
    /\ sink = <<>>
    /\ saveLog = <<>>
    /\ domainRetries = 0
    /\ concurrentDomains = 1
    /\ DefaultTimeouts
    /\ lister = ListerIdle
    /\ sc = ScIdle
    /\ cb = CbIdle
    /\ mpc = "idle"
    /\ letterIdx = 1
    /\ domainsByLetter = [ l \in 1..Len(Letters) |-> 0 ]
    /\ batchStart = 0
    /\ task = [ k \in 1..MaxDomains |-> TaskIdle ]
    /\ results = <<>>
    /\ totalSuccessCount = 0
    /\ totalErrorCount = 0
    /\ exitCode = "running"
    /\ timeUp = FALSE
    /\ sinkErrorLogged = FALSE
    /\ events = <<>>
    /\ modalPages = ModalPagesIdle
    /\ env = [ MODAL_TIMEOUT |-> Unset, NAVIGATION_TIMEOUT |-> Unset ]
    /\ timeouts = TimeoutsIdle
    /\ links = <<>>
    /\ listingCalls = {}
    /\ domainList = <<>>
    /\ processedDomains = <<>>
    /\ fetchCall = FetchIdle
    /\ tab = TabIdle
    /\ modalTask = [ i \in 1..MaxCards |-> ModalTaskIdle ]

\* The cache is empty or holds an entry written at time 0.
InitCache ==
    /\ ScraperIdle
    /\ cacheStore \in { NoEntry, CachedEntry(<< "O" >>, 0) }
    /\ clock = 0
    /\ request = [ r \in Requests |-> RequestIdle ]
    /\ testing = TestingIdle

\* Time passes.
Tick ==
    /\ clock < MaxClock * TickMs
    /\ clock' = clock + TickMs
    /\ UNCHANGED << saveVars, configVars, timeoutVars, listingVars, modalPages, lister,
                    domainVars, mainVars, fetchCall, tab, modalTask, cacheStore, request,
                    testing >>

\* onMessage: a scrapeCoupons message arrives and handleScrapeCoupons is
\* called; getCachedCoupons issues storage.local.get.
Arrive(r) ==
    /\ request[r].pc = "idle"
    /\ request' = [ request EXCEPT ![r] =
           [ @ EXCEPT !.pc = "get", !.arrived = clock,
                      !.fresh = Fresh(cacheStore, clock),
                      !.overlapped = \E q \in Requests \ { r } : CallInFlight(q) ] ]
    /\ UNCHANGED << saveVars, configVars, timeoutVars, listingVars, modalPages, lister,
                    domainVars, mainVars, fetchCall, tab, modalTask, cacheStore, clock,
                    testing >>

\* getCachedCoupons: storage.local.get rejects, and handleScrapeCoupons
\* answers { success: false }.
GetRejected(r) ==
    /\ request[r].pc = "get"
    /\ request' = [ request EXCEPT ![r] = [ @ EXCEPT !.pc = "done", !.answer = "error" ] ]
    /\ UNCHANGED << saveVars, configVars, timeoutVars, listingVars, modalPages, lister,
                    domainVars, mainVars, fetchCall, tab, modalTask, cacheStore, clock,
                    testing >>

\* getCachedCoupons after storage.local.get: no entry, or an expired entry
\* that is removed, gives null and the call goes on to fetch; otherwise the
\* call answers the cached list. If storage.local.remove rejects (ok is
\* false), the entry stays and the call answers { success: false }.
GetCachedCoupons(r, ok) ==
    /\ request[r].pc = "get"
    /\ LET cachedData == cacheStore
           expired == cachedData.present /\ CacheExpired(cachedData, clock)
       IN  /\ ok \/ expired
           /\ cacheStore' = IF expired /\ ok THEN NoEntry ELSE cacheStore
           /\ request' = [ request EXCEPT ![r] =
                  IF expired /\ ~ok
                  THEN [ @ EXCEPT !.pc = "done", !.checked = clock, !.found = cachedData,
                                  !.answer = "error" ]
                  ELSE IF expired \/ ~cachedData.present
                  THEN [ @ EXCEPT !.pc = "fetch", !.checked = clock, !.found = cachedData,
                                  !.removed = expired ]
                  ELSE [ @ EXCEPT !.pc = "done", !.checked = clock, !.found = cachedData,
                                  !.answer = "coupons", !.source = "cache",
                                  !.coupons = cachedData.coupons ] ]
    /\ UNCHANGED << saveVars, configVars, timeoutVars, listingVars, modalPages, lister,
                    domainVars, mainVars, fetchCall, tab, modalTask, clock, testing >>

\* fetchCouponsWithBrowserAPI up to createTabAsync: without the permission it
\* throws and handleScrapeCoupons answers { success: false }.
FetchStart(r, ok) ==
    /\ request[r].pc = "fetch"
    /\ request' = [ request EXCEPT ![r] =
           IF ok
           THEN [ @ EXCEPT !.pc = "tab", !.tabs = @ + 1 ]
           ELSE [ @ EXCEPT !.pc = "done", !.answer = "error" ] ]
    /\ UNCHANGED << saveVars, configVars, timeoutVars, listingVars, modalPages, lister,
                    domainVars, mainVars, fetchCall, tab, modalTask, cacheStore, clock,
                    testing >>

\* fetchCouponsWithBrowserAPI from the tab on: it returns the list or throws.
FetchEnd(r, ok, list) ==
    /\ request[r].pc = "tab"
    /\ request' = [ request EXCEPT ![r] =
           IF ok
           THEN [ @ EXCEPT !.pc = "cache", !.coupons = list ]
           ELSE [ @ EXCEPT !.pc = "done", !.answer = "error" ] ]
    /\ UNCHANGED << saveVars, configVars, timeoutVars, listingVars, modalPages, lister,
                    domainVars, mainVars, fetchCall, tab, modalTask, cacheStore, clock,
                    testing >>

\* cacheCoupons and the answer: storage.local.set of the list with the
\* present time; if it rejects the call answers { success: false }.
CacheCoupons(r, ok) ==
    /\ request[r].pc = "cache"
    /\ LET cachedData == CachedEntry(request[r].coupons, clock)
       IN  /\ cacheStore' = IF ok THEN cachedData ELSE cacheStore
           /\ request' = [ request EXCEPT ![r] =
                  IF ok
                  THEN [ @ EXCEPT !.pc = "done", !.stored = cachedData,
                                  !.answer = "coupons", !.source = "fetch" ]
                  ELSE [ @ EXCEPT !.pc = "done", !.answer = "error", !.coupons = <<>> ] ]
    /\ UNCHANGED << saveVars, configVars, timeoutVars, listingVars, modalPages, lister,
                    domainVars, mainVars, fetchCall, tab, modalTask, clock, testing >>

NextCache ==
    \/ Tick
    \/ \E r \in Requests : Arrive(r)
    \/ \E r \in Requests : GetRejected(r)
    \/ \E r \in Requests, ok \in BOOLEAN : GetCachedCoupons(r, ok)
    \/ \E r \in Requests, ok \in BOOLEAN : FetchStart(r, ok)
    \/ \E r \in Requests, ok \in BOOLEAN, list \in FetchedLists : FetchEnd(r, ok, list)
    \/ \E r \in Requests, ok \in BOOLEAN : CacheCoupons(r, ok)

CacheSpec == InitCache /\ [][NextCache]_vars

\* ------------------------------------------------------------ TestingSpec
\* handleCouponTestingComplete of background.ts: one couponTestingComplete
\* message with the results of the content script.

\* savings: number | null; null is the empty sequence, the number n is << n >>.
NoSavings == <<>>

\* What the test of one coupon can give (content script: success is
\* isSuccess && !isError, savings is calculateSavings() or null).
TestOutcome == [ success : BOOLEAN, savings : { NoSavings, << 1 >>, << 2 >> } ]

\* The code of the i-th coupon tested.
CodeAt(i) == ToString(i)

\* The results messages of at most MaxResults coupons.
ResultLists ==
    UNION { { [ i \in 1..k |-> [ code |-> CodeAt(i), success |-> f[i].success,
                                 savings |-> f[i].savings ] ] :
              f \in [ 1..k -> TestOutcome ] } : k \in 0..MaxResults }

\* The callback of the reduce of findBestCouponResult.
BetterResult(best, current) ==
    IF /\ current.success
       /\ current.savings # NoSavings
       /\ \/ ~best.success
          \/ best.savings = NoSavings
          \/ current.savings[1] > best.savings[1]
    THEN current
    ELSE best

RECURSIVE ReduceResults(_, _)
\* results.slice(0, n).reduce(callback, { success: false, savings: null, code: "" }).
ReduceResults(rs, n) ==
    IF n = 0
    THEN [ code |-> "", success |-> FALSE, savings |-> NoSavings ]
    ELSE BetterResult(ReduceResults(rs, n - 1), rs[n])

\* findBestCouponResult.
FindBestCouponResult(rs) == ReduceResults(rs, Len(rs))

\* A couponTestingComplete message has arrived, from a tab or not.
InitTesting ==
    /\ ScraperIdle
    /\ cacheStore = NoEntry
    /\ clock = 0
    /\ request = [ r \in Requests |-> RequestIdle ]
    /\ testing \in { [ TestingIdle EXCEPT !.pc = "received", !.results = rs, !.senderTab = t ] :
                       rs \in ResultLists, t \in BOOLEAN }

\* handleCouponTestingComplete: the best result is applied in the tab of the
\* sender and announced, or the failure is announced.
HandleCouponTestingComplete ==
    /\ testing.pc = "received"
    /\ LET bestResult == FindBestCouponResult(testing.results)
       IN  testing' =
             IF bestResult.success /\ testing.senderTab
             THEN [ testing EXCEPT !.pc = "done",
                        !.sent = << [ action |-> "applyBestCoupon", code |-> bestResult.code ] >>,
                        !.notification = "Applied the best coupon" ]
             ELSE [ testing EXCEPT !.pc = "done",
                        !.notification = "No working coupons found for this site." ]
    /\ UNCHANGED << saveVars, configVars, timeoutVars, listingVars, modalPages, lister,
                    domainVars, mainVars, fetchCall, tab, modalTask, cacheStore, clock,
                    request >>

NextTesting == HandleCouponTestingComplete

TestingSpec == InitTesting /\ [][NextTesting]_vars

\* ============================================================ claims
\* The last saveToDatabase call.
LastSave == saveLog[Len(saveLog)]

\* TRUE iff no two rows of the sequence have the same (domain, code) key.
DistinctKeys(rows) ==
    \A i, j \in 1..Len(rows) : i # j => RowKey(rows[i]) # RowKey(rows[j])

\* C2: every row saveToDatabase submits to the sink has a code that is
\* neither the sentinel "AUTOMATIC" nor the empty string, whatever offer
\* list scrapeCoupons returned.
C2_NoSentinelSubmitted ==
    \A n \in 1..Len(saveLog) : \A i \in 1..Len(saveLog[n].rows) :
        /\ saveLog[n].rows[i].code # AUTOMATIC
        /\ saveLog[n].rows[i].code # ""

\* C2 witness: a save of a list holding an offer with a resolved code and an
\* offer that kept the sentinel, of which exactly the first was submitted.
C2_Witness ==
    /\ Len(saveLog) = 1
    /\ Len(LastSave.rows) = 1
    /\ \E i, j \in 1..Len(LastSave.coupons) :
        /\ ~LastSave.coupons[i].hasDirectCode
        /\ LastSave.coupons[i].code = "A"
        /\ LastSave.coupons[j].code = AUTOMATIC

\* C6: the rows of one saveToDatabase call have pairwise distinct
\* (domain, code) keys, and every real code of the offer list yields exactly
\* one row, however many offers carry it.
C6_DistinctKeysSubmitted ==
    \A n \in 1..Len(saveLog) :
        /\ DistinctKeys(saveLog[n].rows)
        /\ \A k \in 1..Len(saveLog[n].coupons) :
             saveLog[n].coupons[k].code # AUTOMATIC =>
                Cardinality({ i \in 1..Len(saveLog[n].rows) :
                    RowKey(saveLog[n].rows[i])
                        = << TheDomain, saveLog[n].coupons[k].code >> }) = 1

\* C6 witness: a save of a list in which two offers collide on a real code.
C6_Witness ==
    /\ Len(saveLog) = 1
    /\ \E i, j \in 1..Len(LastSave.coupons) :
        /\ i < j
        /\ LastSave.coupons[i].code = LastSave.coupons[j].code
        /\ LastSave.coupons[i].code # AUTOMATIC
    /\ Len(LastSave.rows) = 1

\* TRUE iff calls n and n+1 of saveToDatabase got the same offer list and
\* the sink accepted both.
SameListTwice(n) ==
    /\ n + 1 <= Len(saveLog)
    /\ saveLog[n].coupons = saveLog[n + 1].coupons
    /\ saveLog[n].outcome = "ok"
    /\ saveLog[n + 1].outcome = "ok"

\* C7: idempotence: the sink never holds two rows with the same
\* (domain, code) key, and a second saveToDatabase run on the same offer
\* list adds no row to the sink.
C7_Idempotent ==
    /\ DistinctKeys(sink)
    /\ \A n \in 1..Len(saveLog) :
         SameListTwice(n) =>
            /\ saveLog[n + 1].after = saveLog[n + 1].before
            /\ \A i \in 1..Len(saveLog[n + 1].rows) :
                 Cardinality({ j \in 1..Len(saveLog[n + 1].after) :
                     RowKey(saveLog[n + 1].after[j])
                        = RowKey(saveLog[n + 1].rows[i]) }) = 1

\* C7 witness: the same offer list was saved twice and the sink holds rows.
C7_Witness ==
    /\ Len(saveLog) = 2
    /\ SameListTwice(1)
    /\ Len(sink) >= 2

\* The row of the table with the given key.
StoredRow(table, key) == table[CHOOSE i \in 1..Len(table) : RowKey(table[i]) = key]

\* C8 (as claimed): when a stored (domain, code) pair is submitted again with
\* a different verified flag, the stored row carries the newly observed flag.
C8_LatestVerifiedWins ==
    \A n \in 1..Len(saveLog) :
        saveLog[n].outcome = "ok" =>
            \A i \in 1..Len(saveLog[n].rows) :
                LET r == saveLog[n].rows[i]
                IN  HasKey(saveLog[n].before, RowKey(r)) =>
                        StoredRow(saveLog[n].after, RowKey(r)).verified = r.verified

\* The offers of the list that carry the given code, in extraction order.
Colliding(cs, code) == { k \in 1..Len(cs) : cs[k].code = code }

\* The least element of a non-empty set of numbers.
Least(S) == CHOOSE x \in S : \A y \in S : x <= y

\* C9: of the offers colliding on a code within one saveToDatabase call the
\* row kept is verified whenever one of them is, and its discount and terms
\* come from the earliest offer with the kept verified flag.
C9_VerifiedFirstTieBreak ==
    \A n \in 1..Len(saveLog) : \A i \in 1..Len(saveLog[n].rows) :
        LET cs == saveLog[n].coupons
            r == saveLog[n].rows[i]
            same == Colliding(cs, r.code)
            first == Least({ k \in same : cs[k].verified = r.verified })
        IN  /\ r.verified = (\E k \in same : cs[k].verified)
            /\ r.discount = cs[first].discount
            /\ r.terms = cs[first].terms

\* C9 witness: three offers collide on one code, the first unverified, the
\* second and third verified; the row kept is the second offer's.
C9_Witness ==
    /\ Len(saveLog) = 1
    /\ Len(LastSave.coupons) = 3
    /\ \A k \in 1..3 : LastSave.coupons[k].code = "A"
    /\ ~LastSave.coupons[1].verified
    /\ LastSave.coupons[2].verified
    /\ LastSave.coupons[3].verified
    /\ Len(LastSave.rows) = 1
    /\ LastSave.rows[1].discount = 2

\* C1 (as claimed): a domain whose every scrape attempt failed was attempted
\* domainRetries + 1 times, with a backoff before each of the domainRetries
\* retries, ended with the empty list, and main counted exactly one failure.
C1_RetriedExactlyR ==
    (mpc \in {"summary", "done"} /\ sc.attempts > 0 /\ sc.failures = sc.attempts) =>
        /\ sc.attempts = domainRetries + 1
        /\ sc.backoffs = domainRetries
        /\ sc.outcome = "resolved"
        /\ sc.coupons = <<>>
        /\ totalErrorCount = 1
        /\ totalSuccessCount = 0

\* C3: once a scrapeDomains call or a scrapeCoupons call (with its retries)
\* has settled, every browser it launched has been closed.
C3_LaunchesEqualCloses ==
    /\ lister.pc = "settled" => lister.launched = lister.closed
    /\ cb.pc \in {"save", "done"} => ScSettled
    /\ ScSettled => sc.launches = sc.closes /\ sc.open = {}

\* C3 witness: a listing call that launched a browser has settled, and so
\* has a scrapeCoupons call that launched two browsers, failed inside the
\* try block, retried and was then rejected by a failed launch.
C3_Witness ==
    /\ lister.pc = "settled"
    /\ lister.launched = 1
    /\ ScSettled
    /\ sc.launches = 2
    /\ sc.attempts = 3
    /\ sc.outcome = "rejected"

\* C10 (as claimed): scrapeDomains never rejects, and a listing failure
\* never ends the run.
C10_ListingNeverRejects ==
    /\ lister.outcome # "rejected"
    /\ mpc # "fatal"

\* C4: within a batch no callback rejects, so the batch join resolves with
\* exactly one result per domain of the batch, in batch order, and every
\* domain of the batch was scraped and, if it returned offers, saved,
\* whatever happened to its siblings; no batch ends the run.
C4_BatchIsolated ==
    /\ \A k \in 1..MaxDomains : task[k].result # "rejected"
    /\ mpc = "fatal" => lister.outcome = "rejected"
    /\ mpc = "count" =>
        /\ Len(results) = Cardinality(CurrentBatch)
        /\ \A j \in 1..Len(results) : results[j].domain = batchStart + j
        /\ \A k \in CurrentBatch :
            /\ task[k].pc = "done"
            /\ task[k].scraped
            /\ task[k].outcome = "coupons" => task[k].saved

\* C4 witness: a joined batch in which one domain was retried and then
\* rejected by a failed launch while a sibling was scraped and saved.
C4_Witness ==
    /\ mpc = "count"
    /\ \E k1, k2 \in CurrentBatch :
        /\ task[k1].outcome = "rejected"
        /\ task[k1].retry >= 1
        /\ task[k2].saved
        /\ task[k2].result = "success"

\* C5: at the end of the run main exits with the error code if and only if
\* no domain was counted as successful.
C5_ErrorExitIffNoSuccess ==
    mpc = "done" =>
        /\ exitCode \in {0, 1}
        /\ exitCode = 1 <=> totalSuccessCount = 0

\* C5 witness: a run that ends normally with one success and several failures.
C5_Witness ==
    /\ mpc = "done"
    /\ exitCode = 0
    /\ totalSuccessCount = 1
    /\ totalErrorCount >= 2

\* C13 (as claimed): the reveal pages open at the same time never exceed a
\* fixed pool size of at most 10, however many offers need resolution.
C13_PoolBounded ==
    /\ pagePool.pages <= 10
    /\ pagePool.open <= 10

\* C14: the tasks in flight hold pairwise distinct pages of the pool, each
\* task exactly one.
C14_DistinctPoolPages ==
    /\ \A h1, h2 \in pagePool.held : h1[1] # h2[1] => h1[2] # h2[2]
    /\ \A k \in pending :
         \E h \in pagePool.held : h[1] = k /\ h[2] \in 0..(pagePool.pages - 1)
    /\ \A h \in pagePool.held : h[1] \in pending

\* C14 witness: two resolution tasks are in flight at the same time.
C14_Witness ==
    /\ Cardinality(pending) = 2
    /\ Cardinality(pagePool.held) = 2

\* The resolution tasks whose result goes to offer c.
TasksOf(c) ==
    { k \in 1..Len(modalUrls) : MapGet(modalToCouponMap, modalUrls[k]) = coupons[c].id }

\* C15: an offer whose resolution tasks all threw or timed out keeps the
\* sentinel; an offer none of whose tasks read a value keeps the code of the
\* extraction; no task starts the retry of the domain; and scrapeCoupons
\* returns every offer, of which each real code is submitted to the sink.
C15_FailedResolutionIsolated ==
    /\ phase # "retried"
    /\ \A c \in 1..Len(coupons) :
         /\ (TasksOf(c) # {} /\ TasksOf(c) \subseteq pagePool.failed) =>
                coupons[c].code = AUTOMATIC
         /\ TasksOf(c) \cap pagePool.read = {} =>
                coupons[c].code = ExtractCoupon(cards[c], c).code
    /\ (pagePool.failed # {} /\ phase \in {"scraped", "saved"}) =>
         Len(coupons) = Len(cards)
    /\ (pagePool.failed # {} /\ Len(saveLog) > 0) =>
         /\ LastSave.coupons = coupons
         /\ \A c \in 1..Len(coupons) :
              coupons[c].code # AUTOMATIC =>
                 \E i \in 1..Len(LastSave.rows) : LastSave.rows[i].code = coupons[c].code

\* C15 witness: one offer's resolution failed and it kept the sentinel, while
\* an offer with a direct code was returned and submitted.
C15_Witness ==
    /\ phase = "saved"
    /\ Len(coupons) = 2
    /\ pagePool.failed # {}
    /\ \E c, d \in 1..Len(coupons) :
         /\ TasksOf(c) # {}
         /\ TasksOf(c) \subseteq pagePool.failed
         /\ coupons[c].code = AUTOMATIC
         /\ coupons[d].hasDirectCode
         /\ \E i \in 1..Len(LastSave.rows) : LastSave.rows[i].code = coupons[d].code

\* C16: saveToDatabase is called only when no resolution task is in flight,
\* and the offers are the same after the call as they were when its rows
\* were built.
C16_SaveAfterResolution ==
    /\ phase \in {"return", "scraped", "saved", "empty"} => pending = {}
    /\ Len(saveLog) > 0 =>
         /\ pending = {}
         /\ LastSave.coupons = coupons

\* C16 witness: a save after two resolution tasks have read their codes.
C16_Witness ==
    /\ Len(saveLog) = 1
    /\ Cardinality(pagePool.read) = 2
    /\ Len(LastSave.rows) = 2

\* The domains of the letter whose callback is in flight.
InFlight == { k \in 1..MaxDomains : task[k].pc \in {"start", "scraping", "save"} }

\* The positions of the events of the given kind.
EventsOf(e) == { p \in 1..Len(events) : events[p].e = e }

\* The number of domains the listing of category l returned (0: none yet).
Listed(l) ==
    LET ps == { p \in EventsOf("listed") : events[p].letter = l }
    IN  IF ps = {} THEN 0 ELSE events[CHOOSE p \in ps : TRUE].to

\* The batches of category l started so far, oldest first.
BatchesOf(l) ==
    LET IsBatch(ev) == ev.e = "batch" /\ ev.letter = l
    IN  SelectSeq(events, IsBatch)

\* The smaller of two numbers.
Min(a, b) == IF a < b THEN a ELSE b

\* C11: at most concurrentDomains callbacks are in flight; they belong to
\* the batch main is waiting for, so that no later batch, no later category
\* and no listing runs beside them; a batch starts only after every batch
\* started before it has joined.
C11_BoundedConcurrency ==
    /\ Cardinality(InFlight) <= concurrentDomains
    /\ InFlight # {} =>
         /\ mpc = "batch"
         /\ InFlight \subseteq CurrentBatch
         /\ lister.pc \in {"idle", "settled"}
    /\ \A p, q \in EventsOf("batch") :
         q < p => \E r \in EventsOf("join") :
                    /\ q < r /\ r < p
                    /\ events[r].letter = events[q].letter
                    /\ events[r].from = events[q].from

\* C11 witness: in the second category, whose listing holds more domains
\* than a batch, concurrentDomains = 2 callbacks are in flight after a batch
\* of the first category has joined.
C11_Witness ==
    /\ concurrentDomains = 2
    /\ letterIdx = 2
    /\ domainsByLetter[2] = 3
    /\ Cardinality(InFlight) = 2
    /\ \E r \in EventsOf("join") : events[r].letter = 1

\* C12 (as claimed): when the run has ended, the batches of every category
\* are the consecutive slices of its listing, each concurrentDomains wide
\* but the last, and together they hold every listed domain once.
C12_EveryDomainOnceInSlices ==
    mpc \in {"done", "fatal"} =>
        \A l \in 1..Len(Letters) :
            LET n == Listed(l)
                bs == BatchesOf(l)
            IN  /\ Len(bs) = (n + concurrentDomains - 1) \div concurrentDomains
                /\ \A j \in 1..Len(bs) :
                     /\ bs[j].from = (j - 1) * concurrentDomains + 1
                     /\ bs[j].to = Min(j * concurrentDomains, n)

C20_ListingThenItsBatches ==
    \A p \in EventsOf("listed") : \A q \in EventsOf("list") :
        (events[p].to > 0 /\ p < q) =>
            \E r \in EventsOf("batch") :
                /\ p < r /\ r < q
                /\ events[r].letter = events[p].letter

\* C20 (amended): the listing of every category has started before the first
\* batch of any category starts, no listing starts after a batch, and the
\* batches follow the order of the listings, each within the length of its
\* category's listing.
C20_ListingsPrecedeProcessing ==
    \A q \in EventsOf("batch") :
        /\ \A l \in 1..Len(Letters) :
             \E p \in EventsOf("list") : p < q /\ events[p].letter = l
        /\ \A p \in EventsOf("list") : p < q
        /\ \A r \in EventsOf("batch") : r < q => events[r].letter <= events[q].letter
        /\ events[q].to <= Listed(events[q].letter)

\* C20 witness: both categories were listed with domains, the second right
\* after the first, and a batch of the second category has started.
C20_Witness ==
    /\ Listed(1) > 0
    /\ Listed(2) > 0
    /\ \E q \in EventsOf("batch") : events[q].letter = 2
    /\ \E q \in EventsOf("batch") : events[q].letter = 1

\* C17 (as claimed): the listing of every category after the first starts
\* right after a delay of 2 x delayBetweenDomains, which is longer than the
\* delay between batches, and no such delay follows the last category.
C17_DelayAfterEachCategory ==
    /\ \A p \in EventsOf("list") :
         events[p].letter > 1 =>
            /\ p > 1
            /\ events[p - 1].e = "letterDelay"
            /\ events[p - 1].letter = events[p].letter - 1
            /\ events[p - 1].ms = 2 * DelayBetweenDomains
            /\ events[p - 1].ms > DelayBetweenDomains
    /\ \A p \in EventsOf("letterDelay") : events[p].letter < Len(Letters)

\* The number of domains of the batches that have joined.
RECURSIVE JoinedDomains(_)
JoinedDomains(evs) ==
    IF evs = <<>> THEN 0
    ELSE LET ev == evs[Len(evs)]
         IN  JoinedDomains(SubSeq(evs, 1, Len(evs) - 1))
               + (IF ev.e = "join" THEN ev.to - ev.from + 1 ELSE 0)

\* C19 (as claimed): a batch starts only after the listing of its own
\* category, the latest listing started; a listing starts only after every
\* batch started before it has joined; an empty listing is followed at once
\* by the listing of the next category or by the summary; the counters
\* count the domains of the joined batches and nothing else; and the run
\* ends with the summary.
C19_OrchestratorStateMachine ==
    /\ \A q \in EventsOf("batch") :
         \E p \in EventsOf("listed") :
            /\ p < q
            /\ events[p].letter = events[q].letter
            /\ events[q].to <= events[p].to
            /\ \A r \in EventsOf("list") : r < q => r < p
    /\ \A p \in EventsOf("list") : \A q \in EventsOf("batch") :
         q < p => \E r \in EventsOf("join") :
                    /\ q < r /\ r < p
                    /\ events[r].letter = events[q].letter
                    /\ events[r].from = events[q].from
    /\ \A p \in EventsOf("listed") :
         (events[p].to = 0 /\ p < Len(events)) =>
            \/ events[p + 1] = Event("list", events[p].letter + 1, 0, 0, 0)
            \/ events[p + 1].e = "summary"
    /\ totalSuccessCount + totalErrorCount
         = JoinedDomains(events) - (IF mpc = "count" THEN Len(results) ELSE 0)
    /\ mpc \in {"done", "fatal"} =>
         /\ mpc = "done"
         /\ events[Len(events)].e = "summary"

\* TRUE iff the rows of the n-th saveToDatabase call hold the code of offer c.
Submitted(n, c) ==
    /\ saveLog[n].coupons[c].code # AUTOMATIC
    /\ \E i \in 1..Len(saveLog[n].rows) :
         saveLog[n].rows[i].code = saveLog[n].coupons[c].code

\* C21 (as claimed): the offers without a submitted row are exactly the offers
\* that have neither a direct code nor a non-empty reveal reference.
C21_ExcludedExactlyUnresolvable ==
    \A n \in 1..Len(saveLog) : \A c \in 1..Len(cards) :
        ~Submitted(n, c) <=>
            (~ExtractCoupon(cards[c], c).hasDirectCode /\ ~Truthy(cards[c].modal))

\* C21 (amended): an offer is submitted if and only if it has a direct code
\* other than the sentinel or one of the resolution tasks mapped to it read a
\* code other than the sentinel; an offer with neither a direct code nor a
\* non-empty reveal reference is never submitted; and every submitted code
\* is the direct code of an offer of the page or a code a resolution task
\* of the page read.
C21_SubmittedIffRealCode ==
    \A n \in 1..Len(saveLog) :
        /\ Len(saveLog[n].coupons) = Len(cards)
        /\ \A c \in 1..Len(cards) :
             LET e == ExtractCoupon(cards[c], c)
             IN  /\ Submitted(n, c) <=>
                        \/ e.hasDirectCode /\ e.code # AUTOMATIC
                        \/ \E g \in pagePool.got : g[1] \in TasksOf(c) /\ g[2] # AUTOMATIC
                 /\ (~e.hasDirectCode /\ ~Truthy(cards[c].modal)) => ~Submitted(n, c)
        /\ \A i \in 1..Len(saveLog[n].rows) :
             \/ \E c \in 1..Len(cards) :
                  /\ ExtractCoupon(cards[c], c).hasDirectCode
                  /\ ExtractCoupon(cards[c], c).code = saveLog[n].rows[i].code
             \/ \E g \in pagePool.got : g[2] = saveLog[n].rows[i].code

\* C21 witness: of two offers with a reveal reference one was resolved and
\* submitted, the other, whose resolution failed, was not.
C21_Witness ==
    /\ Len(saveLog) = 1
    /\ Len(cards) = 2
    /\ \A c \in 1..2 : NeedsModal(ExtractCoupon(cards[c], c))
    /\ \E c, d \in 1..2 :
         /\ Submitted(1, c)
         /\ ~Submitted(1, d)
         /\ TasksOf(d) # {}
         /\ TasksOf(d) \subseteq pagePool.failed

\* TRUE iff the sequence holds no empty string and no value twice.
NoEmptyNoDuplicate(ds) ==
    /\ \A i \in 1..Len(ds) : ds[i] # ""
    /\ \A i, j \in 1..Len(ds) : i # j => ds[i] # ds[j]

\* C22 (as claimed): the sequence scrapeDomains returns holds no empty
\* string and no merchant domain twice, whatever the listing page links.
C22_NoEmptyNoDuplicateDomain ==
    /\ NoEmptyNoDuplicate(domainList)
    /\ NoEmptyNoDuplicate([ i \in 1..Len(processedDomains) |-> processedDomains[i].domain ])

\* TRUE iff the scrapeCoupons call of the domain ended with an attempt that
\* rendered the page without error and found no coupon card.
ExtractionEmpty ==
    /\ ScSettled
    /\ sc.outcome = "resolved"
    /\ sc.coupons = <<>>
    /\ sc.failures < sc.attempts

\* C23 (as claimed): a domain whose page rendered without error and held no
\* coupon card is not retried, is not counted as a failure, and a run whose
\* only domain is such a domain does not end with the error exit.
C23_ExtractionEmptyIsNoError ==
    ExtractionEmpty =>
        /\ sc.attempts = sc.failures + 1
        /\ sc.step = "none"
        /\ cb.result # "failure"
        /\ totalErrorCount = 0
        /\ mpc = "done" => exitCode = 0

\* C24: saveToDatabase never rejects: whatever the sink call did, the
\* callback of the domain returns { success: true }; a logged sink error
\* never ends the run; and a run that logged one ends with the summary after
\* every listed domain of every category was batched and joined.
C24_SinkFailureSwallowed ==
    /\ \A k \in 1..MaxDomains :
         /\ task[k].save # "rejected"
         /\ task[k].saved => (task[k].save = "returned" /\ task[k].result = "success")
    /\ sinkErrorLogged => mpc # "fatal"
    /\ (sinkErrorLogged /\ mpc = "done") =>
         /\ events[Len(events)].e = "summary"
         /\ \A l \in 1..Len(Letters) :
              /\ Len(BatchesOf(l))
                   = (Listed(l) + concurrentDomains - 1) \div concurrentDomains
              /\ \A j \in 1..Len(BatchesOf(l)) :
                   /\ BatchesOf(l)[j].from = (j - 1) * concurrentDomains + 1
                   /\ BatchesOf(l)[j].to = Min(j * concurrentDomains, Listed(l))
                   /\ \E r \in EventsOf("join") :
                        /\ events[r].letter = l
                        /\ events[r].from = BatchesOf(l)[j].from

\* C24 witness: the sink write of a domain of the first category failed and
\* was logged, and a domain of the second category is being scraped.
C24_Witness ==
    /\ sinkErrorLogged
    /\ mpc = "batch"
    /\ letterIdx = 2
    /\ batchStart = 0
    /\ \A k \in 1..MaxDomains : ~task[k].saved
    /\ \E k \in 1..MaxDomains : task[k].pc = "scraping"

\* TRUE iff a timeout of a ms ends strictly before a timeout of b ms
\* (puppeteer: a timeout of 0 never ends).
StrictlyShorter(a, b) == a > 0 /\ (b = 0 \/ a < b)

\* C25 (as claimed): the timeout of the wait for the selector and the timeout
\* of the navigation of a reveal resolution are strictly shorter than
\* CONFIG.navigationTimeout, whatever the environment sets.
C25_RevealTimeoutsShorter ==
    timeouts.pc = "reveal" =>
        /\ StrictlyShorter(timeouts.wait, navigationTimeout)
        /\ StrictlyShorter(timeouts.goto, navigationTimeout)

\* C26 (as claimed): runPartialScraper ends with the error exit if no domain
\* succeeded in the whole run, and with the normal exit otherwise, whatever
\* the listings returned.
C26_RunnerErrorExitIffNoSuccess ==
    mpc = "done" =>
        /\ exitCode \in {0, 1}
        /\ exitCode = 1 <=> totalSuccessCount = 0

\* C27 (as claimed): in the multi-website variant a reveal page is closed
\* when the modal task that opened it ends, whether the task succeeded or
\* threw.
C27_RevealPageClosedWithItsTask ==
    modalPages.ended \cap modalPages.open = {}

\* C28 (as claimed): in the multi-website variant no saveToDatabase call
\* hands the sink two rows with the same (domain, code) key, and the sink
\* holds no two rows with the same key after the same offers were saved twice.
C28_MultiNoDuplicateRows ==
    /\ \A n \in 1..Len(saveLog) : DistinctKeys(saveLog[n].rows)
    /\ DistinctKeys(sink)

\* The callbacks of processCoupons whose code resolution is in flight.
Resolving == { i \in 1..MaxCards : modalTask[i].pc \in {"navigated", "alternative"} }

\* C29 (as claimed): the tab is never used by two code resolutions in flight
\* at the same time, and every code read for a coupon was read from the page
\* of that coupon's own modal URL.
C29_NoTabSharedByResolutions ==
    /\ Cardinality(Resolving) <= 1
    /\ \A i \in 1..Len(coupons) :
         modalTask[i].from # << "none" >> => modalTask[i].from = modalUrls[i]

\* C30 (as claimed): when a fetchCouponsWithBrowserAPI call has settled,
\* resolved or rejected, every tab it created has been removed.
C30_TabClosedOnEveryPath ==
    fetchCall.pc = "settled" => tab.created = tab.removed

\* C31 (as claimed): every run of main ends, whatever non-negative values
\* concurrentDomains and domainRetries have: it reaches Done (the summary and
\* the exit), or at least the fatal exit of a rejected listing (C10).
C31_MainEnds ==
    <>(mpc \in {"done", "fatal"})

\* C32: once the forEach over the results of a batch has run, the two
\* counters together count the domains of the batches joined so far, each
\* once (before it, the domains of the batch just joined are still to
\* count); the exit code of runPartialScraper is decided on these values.
C32_EveryJoinedDomainCountedOnce ==
    /\ totalSuccessCount + totalErrorCount
         = JoinedDomains(events) - (IF mpc = "count" THEN Len(results) ELSE 0)
    /\ mpc = "done" =>
         /\ exitCode = RunnerExitCode(totalSuccessCount, totalErrorCount)
         /\ totalSuccessCount + totalErrorCount = JoinedDomains(events)

\* C32 witness: the run has ended after two batches or more, with a domain
\* counted as a success and a domain counted as a failure.
C32_Witness ==
    /\ mpc = "done"
    /\ Cardinality(EventsOf("join")) >= 2
    /\ totalSuccessCount >= 1
    /\ totalErrorCount >= 1

\* C33 (as claimed): a domain is counted as a success only if a
\* saveToDatabase call for it has submitted at least one row to the sink.
C33_SuccessOnlyIfRowSubmitted ==
    (cb.result = "success" \/ totalSuccessCount > 0) =>
        \E n \in 1..Len(saveLog) :
            Len(saveLog[n].rows) > 0 /\ saveLog[n].outcome # "none"

\* C34 (as claimed): every offer without a direct code and with a reveal
\* reference has a resolution task of its own, also when another offer of the
\* page carries the same reference; and an offer's code differs from the
\* code of the extraction only by a value a task read from the offer's own
\* reference.
C34_OwnResolutionPerOffer ==
    phase # "page" =>
        \A c \in 1..Len(coupons) :
            LET e == ExtractCoupon(cards[c], c)
            IN  /\ NeedsModal(e) => TasksOf(c) # {}
                /\ coupons[c].code # e.code =>
                     \E g \in pagePool.got :
                        /\ modalUrls[g[1]] = e.modalUrl
                        /\ g[2] = coupons[c].code

\* C35: an offer whose code was found in the data attributes of the card's
\* .show-code control has no resolution task (only the references of the
\* other offers are navigated), and it keeps that code.
C35_DirectCodeNeverResolved ==
    phase # "page" =>
        /\ Len(modalUrls) =
             Cardinality({ c \in 1..Len(cards) : NeedsModal(ExtractCoupon(cards[c], c)) })
        /\ \A c \in 1..Len(coupons) :
             LET e == ExtractCoupon(cards[c], c)
             IN  e.hasDirectCode =>
                    /\ TasksOf(c) = {}
                    /\ coupons[c].code = e.code
                    /\ \A n \in 1..Len(saveLog) : saveLog[n].coupons[c].code = e.code

\* C35 witness: an offer with a direct code carries the reference of an offer
\* without one; the latter was resolved to another code and the offers were
\* saved.
C35_Witness ==
    /\ phase = "saved"
    /\ \E c, d \in 1..Len(coupons) :
         /\ ExtractCoupon(cards[c], c).hasDirectCode
         /\ Truthy(cards[c].modal)
         /\ cards[d].modal = cards[c].modal
         /\ NeedsModal(ExtractCoupon(cards[d], d))
         /\ coupons[d].code \notin { AUTOMATIC, coupons[c].code }
         /\ coupons[c].code = ExtractCoupon(cards[c], c).code

\* C36 (as claimed): the browsers scrapeCoupons has launched for the one
\* domain of the batch and not yet closed are at most one: the browser of an
\* earlier attempt is closed before the browser of a later attempt is open.
C36_OneBrowserPerDomain ==
    Cardinality(sc.open) <= 1

\* C37: once the check after a batch has found the time limit exceeded, no
\* batch is started and no listing is requested any more, the run ends with
\* the summary, and the domains that were never started are not counted.
C37_TimeLimitStopsTheRun ==
    \A p \in EventsOf("timeLimit") :
        /\ \A q \in EventsOf("batch") \cup EventsOf("list") : q < p
        /\ \/ mpc \in {"letterEnd", "letterDelay", "summary", "done"}
           \/ mpc = "list" /\ letterIdx > Len(Letters)
        /\ totalSuccessCount + totalErrorCount = JoinedDomains(events)
        /\ mpc = "done" => events[Len(events)].e = "summary"

\* C37 witness: the limit was found exceeded after a batch of the first
\* category that left domains of it unstarted; the run has ended with the
\* summary, the second category was never listed and only the domains of
\* the joined batches are counted.
C37_Witness ==
    /\ mpc = "done"
    /\ EventsOf("timeLimit") # {}
    /\ \A p \in EventsOf("list") : events[p].letter = 1
    /\ totalSuccessCount + totalErrorCount < Listed(1)
    /\ totalSuccessCount + totalErrorCount > 0

\* The entry message r found in the cache was older than CACHE_DURATION_MS
\* when r checked it.
FoundExpired(r) ==
    /\ request[r].pc \notin { "idle", "get" }
    /\ request[r].found.present
    /\ request[r].checked - request[r].found.timestamp > CACHE_DURATION_MS

\* Message r was answered with the list it fetched and wrote that list to
\* the cache with the time of the write.
AnsweredFresh(r) ==
    /\ request[r].answer = "coupons"
    /\ request[r].source = "fetch"
    /\ request[r].stored.present
    /\ request[r].stored.coupons = request[r].coupons
    /\ request[r].stored.timestamp >= request[r].checked

\* A list answered from the cache is the list of the entry found, written at
\* most CACHE_DURATION_MS before the message arrived; an expired entry is
\* never answered.
CacheAnswersFresh(r) ==
    /\ request[r].source = "cache" =>
          /\ request[r].found.present
          /\ request[r].coupons = request[r].found.coupons
          /\ request[r].arrived - request[r].found.timestamp <= CACHE_DURATION_MS
    /\ FoundExpired(r) => request[r].source # "cache"

\* C38 as claimed: every list handleScrapeCoupons answers from the cache was
\* stored at most CACHE_DURATION_MS before the request; an entry older than
\* that is removed, never returned, and replaced by a freshly fetched entry
\* with a new timestamp.
C38_ExpiredEntryAlwaysReplaced ==
    \A r \in Requests :
        /\ CacheAnswersFresh(r)
        /\ FoundExpired(r) => cacheStore # request[r].found
        /\ FoundExpired(r) /\ request[r].pc = "done" => AnsweredFresh(r)

\* C38 amended: every list answered from the cache was stored at most
\* CACHE_DURATION_MS before the request; an entry older than that is never
\* returned; the call that finds it removes it and then either fetches a
\* list, writes it to the cache with a new timestamp and answers it, or,
\* when the fetch or the write fails, answers an error and writes no entry;
\* when the removal itself fails the call answers an error at once.
C38_ExpiredEntryNeverReturned ==
    \A r \in Requests :
        /\ CacheAnswersFresh(r)
        /\ FoundExpired(r) /\ request[r].removed =>
              /\ cacheStore # request[r].found
              /\ request[r].pc = "done" =>
                    \/ AnsweredFresh(r)
                    \/ request[r].answer = "error" /\ ~request[r].stored.present
        /\ FoundExpired(r) /\ ~request[r].removed =>
              /\ request[r].pc = "done"
              /\ request[r].answer = "error"
              /\ request[r].tabs = 0
              /\ ~request[r].stored.present

\* One message was answered from an entry exactly CACHE_DURATION_MS old, and
\* another found the entry expired, removed it and answered a fetched list.
C38_Witness ==
    \E r, q \in Requests :
        /\ request[q].pc = "done"
        /\ request[q].source = "cache"
        /\ request[q].checked - request[q].found.timestamp = CACHE_DURATION_MS
        /\ request[r].pc = "done"
        /\ FoundExpired(r)
        /\ AnsweredFresh(r)
        /\ cacheStore = request[r].stored

\* C39: when two scrapeCoupons messages for the domain arrive while no fresh
\* cache entry exists and the second arrives before the first has completed,
\* at most one tab is created by fetchCouponsWithBrowserAPI and both
\* messages receive the same coupon list.
C39_OverlappingRequestsShareOneScrape ==
    \A r, q \in Requests :
        (/\ r # q
         /\ request[r].pc # "idle"
         /\ request[q].pc # "idle"
         /\ request[q].overlapped
         /\ ~request[r].fresh
         /\ ~request[q].fresh) =>
            /\ request[r].tabs + request[q].tabs <= 1
            /\ (request[r].answer = "coupons" /\ request[q].answer = "coupons") =>
                   request[r].coupons = request[q].coupons

\* The savings of a result as a number, null counting below every saving.
SavingsOf(r) == IF r.savings = NoSavings THEN 0 ELSE r.savings[1]

\* The positions of the results with success = true.
Successes(rs) == { i \in 1..Len(rs) : rs[i].success }

\* The earliest successful result whose savings is maximal among the
\* successful results.
EarliestBest(rs) ==
    CHOOSE i \in Successes(rs) :
        /\ \A j \in Successes(rs) : SavingsOf(rs[j]) <= SavingsOf(rs[i])
        /\ \A j \in Successes(rs) : SavingsOf(rs[j]) = SavingsOf(rs[i]) => i <= j

\* C40: for every list of results that a tab sends, if at least one result
\* has success = true then handleCouponTestingComplete sends applyBestCoupon
\* with the code of the earliest successful result of maximal savings; if
\* no result has success = true, no applyBestCoupon message is sent.
C40_BestSuccessfulCouponApplied ==
    (testing.pc = "done" /\ testing.senderTab) =>
        IF Successes(testing.results) # {}
        THEN testing.sent =
               << [ action |-> "applyBestCoupon",
                    code |-> testing.results[EarliestBest(testing.results)].code ] >>
        ELSE testing.sent = <<>>

====
